---- MODULE Spec2Model ----
(***************************************************************************)
(* Review session of metajudge.py: the ReviewWindow cursor over the        *)
(* (insight x judge-category) grid, its edit buffer, the in-memory review  *)
(* store, the autosave timer and the save file written by                  *)
(* MetajudgeApp.save_review_progress.                                      *)
(***************************************************************************)
EXTENDS Integers, Sequences, FiniteSets, TLC

VARIABLES
    total_insights,         \* len(main_app.insights_df)
    total_judges,           \* len(main_app.judge_categories)
    current_insight_index,  \* ReviewWindow.current_insight_index
    current_judge_index,    \* ReviewWindow.current_judge_index
    reviews,                \* ReviewWindow.reviews: (i, j) -> record
    issue_level_var,        \* radio-button variable of the edit buffer
    explanation_text,       \* content of the explanation Text widget
    review_status_var,      \* "REVIEWED" / "PENDING" label
    autosave_job,           \* ReviewWindow._autosave_job, 0 stands for None
    after_autosave,         \* scheduled safe_auto_save callbacks: id -> due
                            \* time and the cursor when it was scheduled
    after_next,             \* number of scheduled deferred next_review calls
    window_exists,          \* the review Toplevel has not been destroyed
    file_state,             \* save file: "absent", "partial" or "complete"
    file_data,              \* JSON content of a complete save file
    file_path,              \* path of the save file on disk, <<>> for none
    saved,                  \* arguments of the last save that was written
    insights_file_var,      \* MetajudgeApp.insights_file_var, a path
    workout_file_var,       \* MetajudgeApp.workout_file_var, a path
    current_save_file,      \* MetajudgeApp.current_save_file, <<>> for None
    stats_shown,            \* content of the statistics window last opened
    exported,               \* the CSV file last written by an export
    edits_left,             \* remaining user edits (bound of the exploration)
    fails_left,             \* remaining injected write failures
    tracking,               \* TRUE when the navigation history is recorded
    now,                    \* milliseconds since the session was opened
    timed,                  \* TRUE when the passage of time is modelled
    last,                   \* the operation that produced this state
    prev,                   \* the operation before it (when tracking)
    trail                   \* cursors of the current run of one operation

vars == <<total_insights, total_judges, current_insight_index,
          current_judge_index, reviews, issue_level_var, explanation_text,
          review_status_var, autosave_job, after_autosave, after_next,
          window_exists, file_state, file_data, file_path, saved,
          insights_file_var, workout_file_var, current_save_file,
          stats_shown, exported, edits_left, fails_left,
          tracking, now, timed, last, prev, trail>>

----------------------------------------------------------------------------
\* Bounds of the exploration.
MaxLen == 2
MaxEdits == 2
MaxWriteFailures == 1
NavInsights == 3
NavJudges == 2
MaxTicks == 5
MaxStored == 2
MaxPresses == 3

\* The datasets (rows of insights_df, judge categories) of the sessions with
\* edits; the navigation-only sessions range over larger grids.
Datasets == {<<1, 1>>, <<1, 2>>, <<2, 1>>}

\* The dataset of the sessions in which writes of the save file may fail.
FailDatasets == {<<1, 1>>}

\* MetajudgeApp.judge_categories has seven entries.
NumJudgeCategories == 7

\* window.after(500, self.safe_auto_save)
AutosaveDelay == 500

----------------------------------------------------------------------------
\* Text and records.

Chars == {" ", "a"}
Whitespace == {" ", "\n"}
IssueLevels == {"Minor Issues", "Major Issues"}
RadioValues == {"No Issues", "Minor Issues", "Major Issues"}

RECURSIVE LStrip(_)
LStrip(s) == IF s # <<>> /\ Head(s) \in Whitespace THEN LStrip(Tail(s)) ELSE s

RECURSIVE RStrip(_)
RStrip(s) ==
    IF s # <<>> /\ s[Len(s)] \in Whitespace
    THEN RStrip(SubSeq(s, 1, Len(s) - 1))
    ELSE s

\* str.strip()
Strip(s) == RStrip(LStrip(s))

\* explanation_text.get(1.0, tk.END): the content followed by a newline.
TextGet(s) == s \o <<"\n">>

Digits == <<"0", "1", "2", "3", "4", "5", "6", "7", "8", "9">>

\* str(n) of a non-negative integer, as a sequence of characters.
RECURSIVE IntStr(_)
IntStr(n) ==
    IF n < 10 THEN <<Digits[n + 1]>>
    ELSE IntStr(n \div 10) \o <<Digits[(n % 10) + 1]>>

\* str((i, j)) of a key tuple: "(i, j)".
KeyStr(k) == <<"(">> \o IntStr(k[1]) \o <<",", " ">> \o IntStr(k[2]) \o <<")">>

\* str(k) of a key of the store.  A key is a pair of indices; a key that was
\* loaded but never eval'ed is still its text (of more than two characters),
\* and str() of a str is the str itself.
Str(k) == IF Len(k) = 2 THEN KeyStr(k) ELSE k

\* {str(k): v for k, v in reviews.items()}
StrKeyed(rv) ==
    [s \in {Str(k) : k \in DOMAIN rv} |->
        rv[CHOOSE k \in DOMAIN rv : Str(k) = s]]

EmptyReviews == [k \in {} |-> 0]

\* Mutant of Upsert: an existing record is kept instead of overwritten.
Upsert_KeepExisting(rv, k, r) ==
    [x \in (DOMAIN rv) \cup {k} |-> IF x \in DOMAIN rv THEN rv[x] ELSE r]

\* Mutant of Upsert: the store is replaced by the one new record.
Upsert_OnlyKey(rv, k, r) == [x \in {k} |-> r]

\* self.reviews[review_key] = {...}
Upsert(rv, k, r) == [x \in (DOMAIN rv) \cup {k} |-> IF x = k THEN r ELSE rv[x]]

Key == <<current_insight_index, current_judge_index>>

----------------------------------------------------------------------------
\* Paths and the name of the save file.

\* The CSV files on disk: the insights, and two workout histories of the
\* same file name in different directories, one of another name.
InsightsCsv == <<"/", "d", "/", "i", ".", "c", "s", "v">>
WorkoutCsv == <<"/", "d", "/", "w", ".", "c", "s", "v">>
OtherDirWorkoutCsv == <<"/", "e", "/", "w", ".", "c", "s", "v">>
OtherWorkoutCsv == <<"/", "d", "/", "v", ".", "c", "s", "v">>

\* Paths recorded in a save file before the CSV files were moved.
MovedInsightsCsv == <<"/", "o", "/", "i", ".", "c", "s", "v">>
MovedWorkoutCsv == <<"/", "o", "/", "w", ".", "c", "s", "v">>

CsvOnDisk == {InsightsCsv, WorkoutCsv, OtherDirWorkoutCsv, OtherWorkoutCsv}

\* os.path.exists(path)
PathExists(p) == p \in CsvOnDisk

\* Path(p).name: the part after the last separator.
RECURSIVE PathName(_)
PathName(p) ==
    IF \E n \in 1..Len(p) : p[n] = "/"
    THEN PathName(SubSeq(p, (CHOOSE n \in 1..Len(p) : p[n] = "/") + 1, Len(p)))
    ELSE p

\* Path(p).stem: the name without its last suffix; a dot that starts or ends
\* the name begins no suffix.
PathStem(p) ==
    LET name == PathName(p)
        dots == {n \in 1..Len(name) : name[n] = "."}
        i == CHOOSE n \in dots : \A x \in dots : x <= n
    IN  IF dots # {} /\ 1 < i /\ i < Len(name)
        THEN SubSeq(name, 1, i - 1)
        ELSE name

Unknown == <<"u", "n", "k", "n", "o", "w", "n">>

Alphabet ==
    <<"/", ".", "_", "c", "d", "e", "i", "k", "n", "o", "s", "u", "v", "w">>

HexDigits ==
    <<"0", "1", "2", "3", "4", "5", "6", "7", "8", "9",
      "a", "b", "c", "d", "e", "f">>

RECURSIVE Hex(_, _)
Hex(n, width) ==
    IF width = 0 THEN <<>>
    ELSE Hex(n \div 16, width - 1) \o <<HexDigits[(n % 16) + 1]>>

\* hashlib.md5(combined.encode()).hexdigest()[:8]: eight hexadecimal digits
\* that are a function of the text alone.  Two 16-bit polynomial checksums
\* stand for the digest.
RECURSIVE Checksum16(_, _)
Checksum16(s, factor) ==
    IF s = <<>> THEN 7
    ELSE (factor * Checksum16(SubSeq(s, 1, Len(s) - 1), factor)
            + (CHOOSE n \in 1..Len(Alphabet) : Alphabet[n] = s[Len(s)]))
         % 65536

Md5Hex8(s) == Hex(Checksum16(s, 31), 4) \o Hex(Checksum16(s, 257), 4)

\* generate_save_filename(insights_file, workout_file), inside
\* save_directory.
GenerateSaveFilename(insights_file, workout_file) ==
    LET insights_name ==
            IF insights_file # <<>> THEN PathStem(insights_file) ELSE Unknown
        workout_name ==
            IF workout_file # <<>> THEN PathStem(workout_file) ELSE Unknown
        combined == insights_name \o <<"_">> \o workout_name
    IN  <<"r", "e", "v", "i", "e", "w", "_">> \o insights_name \o <<"_">>
            \o workout_name \o <<"_">> \o Md5Hex8(combined)
            \o <<".", "j", "s", "o", "n">>

----------------------------------------------------------------------------
\* save_assessment_silent, as a function of the issue level read from
\* issue_level_var at the time of the call.

SasExplanation == Strip(TextGet(explanation_text))

\* Mutant of SasOk: the explanation is not required for any issue level.
SasOk_NoIssueCheck(lvl) ==
    /\ window_exists
    /\ ~(lvl = "" /\ Strip(TextGet(explanation_text)) = <<>>)

\* Mutant of SasOk: the explanation is required for "Minor Issues" only.
SasOk_MinorOnly(lvl) ==
    /\ window_exists
    /\ ~(lvl = "" /\ Strip(TextGet(explanation_text)) = <<>>)
    /\ ~(lvl = "Minor Issues" /\ Strip(TextGet(explanation_text)) = <<>>)

\* Mutant of SasOk: a buffer with neither level nor explanation is not
\* turned away.
SasOk_NoEmptyCheck(lvl) ==
    /\ window_exists
    /\ ~(lvl \in IssueLevels /\ Strip(TextGet(explanation_text)) = <<>>)

SasOk(lvl) ==
    /\ window_exists
    /\ ~(lvl = "" /\ SasExplanation = <<>>)
    /\ ~(lvl \in IssueLevels /\ SasExplanation = <<>>)

SasRecord(lvl) == [issue_level |-> lvl, explanation |-> SasExplanation]

SasReviews(lvl) ==
    IF SasOk(lvl) THEN Upsert(reviews, Key, SasRecord(lvl)) ELSE reviews

\* The top-level keys of the JSON document save_review_progress writes.
SaveKeys ==
    {"insights_file", "workout_file", "reviews", "current_insight_index",
     "current_judge_index", "last_saved", "total_insights", "total_judges"}

\* json.dump of a str: quoted, newline, quote and backslash escaped.
RECURSIVE JsonEscape(_)
JsonEscape(s) ==
    IF s = <<>> THEN <<>>
    ELSE (CASE Head(s) = "\n" -> <<"\\", "n">>
            [] Head(s) = "\"" -> <<"\\", "\"">>
            [] Head(s) = "\\" -> <<"\\", "\\">>
            [] OTHER -> <<Head(s)>>) \o JsonEscape(Tail(s))

JsonStr(s) == <<"\"">> \o JsonEscape(s) \o <<"\"">>

\* json.dump of one review record.
JsonRecord(r) ==
    [issue_level |-> r.issue_level, explanation |-> JsonStr(r.explanation)]

\* save_review_progress: the JSON document written to current_save_file.
SaveData(rv, i, j) ==
    [keys |-> SaveKeys,
     insights_file |-> insights_file_var,
     workout_file |-> workout_file_var,
     reviews |-> [s \in DOMAIN StrKeyed(rv) |-> JsonRecord(StrKeyed(rv)[s])],
     current_insight_index |-> i,
     current_judge_index |-> j,
     total_insights |-> total_insights,
     total_judges |-> total_judges]

NoData ==
    [keys |-> {},
     insights_file |-> <<>>,
     workout_file |-> <<>>,
     reviews |-> EmptyReviews,
     current_insight_index |-> 0,
     current_judge_index |-> 0,
     total_insights |-> 0,
     total_judges |-> 0]

WriteOutcomes == {"ok", "open_failed", "write_failed"}

\* int() of a string of decimal digits.
DigitVal(c) == (CHOOSE n \in 1..10 : Digits[n] = c) - 1

RECURSIVE ParseInt(_)
ParseInt(s) ==
    IF s = <<>> THEN 0
    ELSE 10 * ParseInt(SubSeq(s, 1, Len(s) - 1)) + DigitVal(s[Len(s)])

\* A Python expression without the parentheses that enclose it, if any.
Unparen(s) ==
    IF Len(s) >= 2 /\ Head(s) = "(" /\ s[Len(s)] = ")"
    THEN SubSeq(s, 2, Len(s) - 1)
    ELSE s

\* The two operands of an expression "a, b" or "(a, b)", blanks removed.
KeyParts(s) ==
    LET u == Unparen(s)
        c == CHOOSE n \in 1..Len(u) : u[n] = ","
    IN  <<Strip(SubSeq(u, 1, c - 1)), Strip(SubSeq(u, c + 1, Len(u)))>>

\* A decimal integer literal of Python: digits, no leading zero before
\* another digit.
IsIntLiteral(t) ==
    /\ t # <<>>
    /\ \A n \in 1..Len(t) : \E d \in 1..10 : Digits[d] = t[n]
    /\ Len(t) = 1 \/ t[1] # "0" \/ \A n \in 1..Len(t) : t[n] = "0"

\* eval(k) raises (SyntaxError, NameError) when an operand of the key text
\* "a, b" or "(a, b)" is not an integer literal.
EvalRaises(s) == \E n \in 1..2 : ~IsIntLiteral(KeyParts(s)[n])

\* Mutant of EvalKey: the two indices are exchanged.
EvalKey_Swapped(s) == <<ParseInt(KeyParts(s)[2]), ParseInt(KeyParts(s)[1])>>

\* eval(k) of a key text "a, b" or "(a, b)" of two integer literals: the
\* tuple (a, b).
EvalKey(s) == <<ParseInt(KeyParts(s)[1]), ParseInt(KeyParts(s)[2])>>

\* json.load of the body of a str: the escapes undone.
RECURSIVE JsonUnescape(_)
JsonUnescape(s) ==
    IF s = <<>> THEN <<>>
    ELSE IF Head(s) = "\\" /\ Len(s) >= 2
         THEN <<IF s[2] = "n" THEN "\n" ELSE s[2]>>
                  \o JsonUnescape(SubSeq(s, 3, Len(s)))
         ELSE <<Head(s)>> \o JsonUnescape(Tail(s))

JsonParseStr(t) == JsonUnescape(SubSeq(t, 2, Len(t) - 1))

\* load_existing_review: save_data.get("reviews", {}) with its keys eval'ed.
LoadedReviews(fd) ==
    IF "reviews" \notin fd.keys THEN EmptyReviews
    ELSE [k \in {EvalKey(t) : t \in DOMAIN fd.reviews} |->
            LET r == fd.reviews[CHOOSE t \in DOMAIN fd.reviews : EvalKey(t) = k]
            IN  [issue_level |-> r.issue_level,
                 explanation |-> JsonParseStr(r.explanation)]]

\* save_data.get("reviews", {}) as json.load returns it: the keys are texts.
RawReviews(fd) ==
    IF "reviews" \notin fd.keys THEN EmptyReviews
    ELSE [t \in DOMAIN fd.reviews |->
            [issue_level |-> fd.reviews[t].issue_level,
             explanation |-> JsonParseStr(fd.reviews[t].explanation)]]

\* The dict comprehension over eval(k) raises at one of the keys.
KeyEvalRaises(fd) ==
    "reviews" \in fd.keys /\ \E t \in DOMAIN fd.reviews : EvalRaises(t)

\* save_data.get("current_insight_index", 0)
SavedInsightIndex(fd) ==
    IF "current_insight_index" \in fd.keys THEN fd.current_insight_index ELSE 0

\* Mutant of LoadedPos: the saved cursor is taken as it is.
LoadedPos_NoReset(fd) ==
    <<SavedInsightIndex(fd),
      IF "current_judge_index" \in fd.keys THEN fd.current_judge_index ELSE 0>>

\* load_existing_review: the cursor of the loaded session; progress beyond
\* the loaded dataset is reset to the beginning.
LoadedPos(fd) ==
    IF SavedInsightIndex(fd) >= total_insights THEN <<0, 0>>
    ELSE <<SavedInsightIndex(fd),
           IF "current_judge_index" \in fd.keys
           THEN fd.current_judge_index ELSE 0>>

\* load_specific_file: required_keys
RequiredKeys == {"insights_file", "reviews", "total_insights", "total_judges"}

\* open(current_save_file, 'w') and json.dump; an exception is printed and
\* swallowed.  open() failing leaves the file as it was; a failure inside
\* json.dump leaves the truncated, partly written file.
SaveReviewProgress(rv, i, j, out) ==
    /\ current_save_file # <<>>
    /\ out # "ok" => fails_left > 0
    /\ file_path' = IF out = "open_failed" THEN file_path ELSE current_save_file
    /\ fails_left' = IF out = "ok" THEN fails_left ELSE fails_left - 1
    /\ file_state' = CASE out = "ok" -> "complete"
                       [] out = "open_failed" -> file_state
                       [] out = "write_failed" -> "partial"
    /\ file_data' = CASE out = "ok" -> SaveData(rv, i, j)
                      [] out = "open_failed" -> file_data
                      [] out = "write_failed" -> NoData
    /\ saved' = IF out = "ok" THEN <<[reviews |-> rv, key |-> <<i, j>>]>>
                ELSE saved

NoWrite(out) ==
    /\ out = "ok"
    /\ UNCHANGED <<file_state, file_data, file_path, saved, fails_left>>

\* The store and file effects of one call of save_assessment_silent.
SaveAssessmentSilent(lvl, out) ==
    /\ reviews' = SasReviews(lvl)
    /\ IF SasOk(lvl)
       THEN SaveReviewProgress(reviews', current_insight_index,
                               current_judge_index, out)
       ELSE NoWrite(out)

----------------------------------------------------------------------------
\* The autosave timer slot.

NewId(S) == CHOOSE n \in 1..(Cardinality(S) + 1) :
                n \notin S /\ \A m \in 1..(n - 1) : m \in S

\* The callbacks cbs without the one of identifier id.
Without(cbs, id) == [i \in (DOMAIN cbs) \ {id} |-> cbs[i]]

\* window.after(ms, callback): the callback id falls due at time due; at is
\* the cursor at the time of the call.
After(cbs, id, due, at) ==
    [i \in (DOMAIN cbs) \cup {id} |->
        IF i = id THEN [due |-> due, at |-> at] ELSE cbs[i]]

\* The cursor once the handler has run.
KeyAfter == <<current_insight_index', current_judge_index'>>

\* after_cancel(self._autosave_job) when the slot is not None.
Cancelled(job, cbs) == IF job # 0 THEN Without(cbs, job) ELSE cbs

\* Mutant of OnAssessmentChange: the pending job is not cancelled.
OnAssessmentChange_NoCancel ==
    IF window_exists
    THEN /\ autosave_job' = NewId(DOMAIN after_autosave)
         /\ after_autosave' =
                After(after_autosave, autosave_job', now + AutosaveDelay,
                      KeyAfter)
    ELSE UNCHANGED <<autosave_job, after_autosave>>

\* Mutant of OnAssessmentChange: the new job keeps the due time of the job
\* it replaces.
OnAssessmentChange_KeepDue ==
    IF window_exists
    THEN /\ autosave_job' = NewId(DOMAIN Cancelled(autosave_job, after_autosave))
         /\ after_autosave' =
                After(Cancelled(autosave_job, after_autosave), autosave_job',
                      IF autosave_job \in DOMAIN after_autosave
                      THEN after_autosave[autosave_job].due
                      ELSE now + AutosaveDelay,
                      KeyAfter)
    ELSE UNCHANGED <<autosave_job, after_autosave>>

\* on_assessment_change: cancel the pending job, schedule a new one.
OnAssessmentChange ==
    IF window_exists
    THEN /\ autosave_job' = NewId(DOMAIN Cancelled(autosave_job, after_autosave))
         /\ after_autosave' =
                After(Cancelled(autosave_job, after_autosave), autosave_job',
                      now + AutosaveDelay, KeyAfter)
    ELSE UNCHANGED <<autosave_job, after_autosave>>

\* Mutant of LoadBuffer: at a unit without a record the buffer is left as
\* it was.
LoadBuffer_KeepUnstored(i, j, rv) ==
    /\ issue_level_var' =
           IF <<i, j>> \in DOMAIN rv THEN rv[<<i, j>>].issue_level
           ELSE issue_level_var
    /\ explanation_text' =
           IF <<i, j>> \in DOMAIN rv THEN rv[<<i, j>>].explanation
           ELSE explanation_text
    /\ review_status_var' =
           IF <<i, j>> \in DOMAIN rv THEN "REVIEWED" ELSE "PENDING"

\* Mutant of LoadBuffer: the status label is left as it was.
LoadBuffer_KeepStatus(i, j, rv) ==
    /\ issue_level_var' =
           IF <<i, j>> \in DOMAIN rv THEN rv[<<i, j>>].issue_level ELSE ""
    /\ explanation_text' =
           IF <<i, j>> \in DOMAIN rv THEN rv[<<i, j>>].explanation ELSE <<>>
    /\ review_status_var' = review_status_var

\* load_current_review at cursor (i, j) over store rv.  Setting
\* issue_level_var fires its write trace, which is on_assessment_change.
LoadBuffer(i, j, rv) ==
    /\ issue_level_var' =
           IF <<i, j>> \in DOMAIN rv THEN rv[<<i, j>>].issue_level ELSE ""
    /\ explanation_text' =
           IF <<i, j>> \in DOMAIN rv THEN rv[<<i, j>>].explanation ELSE <<>>
    /\ review_status_var' =
           IF <<i, j>> \in DOMAIN rv THEN "REVIEWED" ELSE "PENDING"

\* Mutant of LoadCurrentReview: setting issue_level_var does not reach
\* on_assessment_change, the pending timer is left as it is.
LoadCurrentReview_NoTrace(i, j, rv) ==
    /\ LoadBuffer(i, j, rv)
    /\ UNCHANGED <<autosave_job, after_autosave>>

LoadCurrentReview(i, j, rv) ==
    /\ LoadBuffer(i, j, rv)
    /\ OnAssessmentChange

----------------------------------------------------------------------------
\* Cursor arithmetic of the navigation handlers.

\* Mutant of NextReviewPos: the judge index is not reset at the end of a row.
NextReviewPos_NoReset(i, j) ==
    IF j < total_judges - 1 THEN <<i, j + 1>>
    ELSE IF i < total_insights - 1 THEN <<i + 1, j>> ELSE <<0, j>>

NextReviewPos(i, j) ==
    IF j < total_judges - 1 THEN <<i, j + 1>>
    ELSE IF i < total_insights - 1 THEN <<i + 1, 0>> ELSE <<0, 0>>

\* Mutant of PreviousReviewPos: no wrap-around at the first unit.
PreviousReviewPos_Clamp(i, j) ==
    IF j > 0 THEN <<i, j - 1>>
    ELSE IF i > 0 THEN <<i - 1, total_judges - 1>> ELSE <<0, 0>>

\* Mutant of PreviousReviewPos: the previous row is entered at its first
\* judge instead of its last.
PreviousReviewPos_FirstJudge(i, j) ==
    IF j > 0 THEN <<i, j - 1>>
    ELSE IF i > 0 THEN <<i - 1, 0>> ELSE <<total_insights - 1, 0>>

PreviousReviewPos(i, j) ==
    IF j > 0 THEN <<i, j - 1>>
    ELSE IF i > 0 THEN <<i - 1, total_judges - 1>>
         ELSE <<total_insights - 1, total_judges - 1>>

PreviousInsightPos(i, j) ==
    IF i > 0 THEN <<i - 1, 0>> ELSE <<total_insights - 1, 0>>

\* Mutant of NextInsightPos: the judge index is kept.
NextInsightPos_KeepJudge(i, j) ==
    IF i < total_insights - 1 THEN <<i + 1, j>> ELSE <<0, j>>

NextInsightPos(i, j) ==
    IF i < total_insights - 1 THEN <<i + 1, 0>> ELSE <<0, 0>>

PreviousJudgePos(i, j) ==
    IF j > 0 THEN <<i, j - 1>> ELSE <<i, total_judges - 1>>

\* Mutant of NextJudgePos: past the last judge the insight index advances.
NextJudgePos_Carry(i, j) ==
    IF j < total_judges - 1 THEN <<i, j + 1>>
    ELSE IF i < total_insights - 1 THEN <<i + 1, 0>> ELSE <<0, 0>>

NextJudgePos(i, j) ==
    IF j < total_judges - 1 THEN <<i, j + 1>> ELSE <<i, 0>>

\* Mutant of JumpInsightAccepts: the range check is zero-based.
JumpInsightAccepts_ZeroBased(n) == 0 <= n /\ n <= total_insights

JumpInsightAccepts(n) == 1 <= n /\ n <= total_insights

\* Mutant of JumpJudgeAccepts: no upper limit.
JumpJudgeAccepts_NoUpper(n) == 1 <= n

JumpJudgeAccepts(n) == 1 <= n /\ n <= total_judges

\* Mutant of JumpInsightPos: the number entered is used as the index.
JumpInsightPos_ZeroBased(n) == <<n, 0>>

\* The cursor an accepted jump_to_insight sets.
JumpInsightPos(n) == <<n - 1, 0>>

\* The cursor an accepted jump_to_judge sets from insight index i.
JumpJudgePos(i, n) == <<i, n - 1>>

\* Numbers the user may have typed in an index entry: below, inside and
\* above the accepted range.
InsightNumbers == 0..(total_insights + 1)
JudgeNumbers == 0..(total_judges + 1)

----------------------------------------------------------------------------
\* History of operations.

\* The operations that edit the assessment.
EditOps ==
    {"select_issue_level", "on_key_release", "hotkey_no_issues",
     "hotkey_minor_issues", "hotkey_major_issues"}

\* The times of the edits made since safe_auto_save last ran before an edit
\* (when timed).
BurstOf(op) ==
    IF ~timed THEN <<>>
    ELSE IF op \notin EditOps THEN last.burst
    ELSE IF last.fired = 0 THEN Append(last.burst, now) ELSE <<now>>

\* The number of runs of safe_auto_save since the last edit (when timed).
FiredOf(op) ==
    IF ~timed \/ op \in EditOps THEN 0
    ELSE IF op = "safe_auto_save" THEN last.fired + 1 ELSE last.fired

\* The dialog an operation shows to the user (messagebox), "" for none.
ShownOf(op, attempt) ==
    CASE op = "manual_save" -> "Progress saved successfully!"
      [] op = "jump_to_insight" /\ ~attempt -> "Invalid Insight"
      [] op = "jump_to_judge" /\ ~attempt -> "Invalid Judge"
      [] op \in {"jump_to_insight_invalid", "jump_to_judge_invalid"}
             -> "Invalid Input"
      [] OTHER -> ""

LastOf(op, attempt, lvl, arg) ==
    [op |-> op,
     shown |-> ShownOf(op, attempt),
     failed |-> fails_left' < fails_left,
     burst |-> BurstOf(op),
     fired |-> FiredOf(op),
     attempt |-> attempt,
     key |-> Key,
     level |-> IF attempt THEN lvl ELSE "",
     expl |-> IF attempt THEN explanation_text ELSE <<>>,
     ok |-> attempt /\ SasOk(lvl),
     had |-> attempt /\ Key \in DOMAIN reviews,
     changed |-> attempt /\ SasReviews(lvl) # reviews,
     arg |-> arg]

GridSize == total_insights * total_judges

Units == (0..(total_insights - 1)) \X (0..(total_judges - 1))

\* The operations whose runs are recorded: the two unit-by-unit moves.
UnitMoves == {"next_review", "previous_review"}

\* The run of consecutive calls of one unit move: the cursor before the first
\* call, then the cursor after each call.  It restarts after one full turn of
\* the grid.
Track(op, pos) ==
    /\ tracking' = tracking
    /\ prev' = IF tracking THEN [op |-> last.op, key |-> last.key] ELSE prev
    /\ trail' =
         IF ~tracking \/ op \notin UnitMoves THEN <<>>
         ELSE IF last.op = op /\ trail # <<>> /\ Len(trail) <= GridSize
              THEN Append(trail, pos)
              ELSE <<Key, pos>>

\* A handler runs to completion at one instant.
Log(op, attempt, lvl, arg, pos) ==
    /\ last' = LastOf(op, attempt, lvl, arg)
    /\ Track(op, pos)
    /\ UNCHANGED <<now, timed>>

\* A handler other than the statistics and export handlers: it opens no
\* statistics window and writes no CSV.
History(op, attempt, lvl, arg, pos) ==
    /\ Log(op, attempt, lvl, arg, pos)
    /\ UNCHANGED <<stats_shown, exported>>

KeepPaths == UNCHANGED <<insights_file_var, workout_file_var, current_save_file>>

\* A handler of the review window: it leaves the paths of the main window
\* alone.
Record(op, attempt, lvl, arg, pos) ==
    /\ History(op, attempt, lvl, arg, pos)
    /\ KeepPaths

Dataset == <<total_insights, total_judges>>

----------------------------------------------------------------------------
\* Statistics and exports, as functions of the store.

\* MetajudgeApp.judge_categories; the judge index j is the category
\* JudgeCategories[j + 1].
JudgeCategories ==
    <<"factuality", "insightfulness", "personalization", "actionability",
      "safety", "tone", "toxicity">>

\* The position of a category name in the order of str comparison.
AlphaRank(name) ==
    CASE name = "actionability" -> 1
      [] name = "factuality" -> 2
      [] name = "insightfulness" -> 3
      [] name = "personalization" -> 4
      [] name = "safety" -> 5
      [] name = "tone" -> 6
      [] name = "toxicity" -> 7

\* sum(1 for r in ... if r['issue_level'] == lvl) over the records at keys K.
RECURSIVE CountLevel(_, _, _)
CountLevel(rv, K, lvl) ==
    IF K = {} THEN 0
    ELSE LET k == CHOOSE x \in K : TRUE
         IN  (IF rv[k].issue_level = lvl THEN 1 ELSE 0)
                 + CountLevel(rv, K \ {k}, lvl)

\* (n / d * 100) if d > 0 else 0, to one decimal as f"{x:.1f}" and
\* round(x, 1) give it, in tenths of a percent.  (No quotient with d < 16
\* lies half-way between two tenths.)
Percent(n, d) == IF d > 0 THEN (2000 * n + d) \div (2 * d) ELSE 0

RECURSIVE Factorial(_)
Factorial(n) == IF n <= 1 THEN 1 ELSE n * Factorial(n - 1)

\* The float (n / d * 100) if d > 0 else 0 as a sort key: an integer that
\* orders the quotients of denominators up to total_insights as the floats
\* are ordered.
RateKey(n, d) == IF d > 0 THEN (n * Factorial(total_insights)) \div d ELSE 0

\* list.sort(key=..., reverse=True) as the order of the indices I: by
\* decreasing key, equal keys in their original order.
RECURSIVE SortedDesc(_, _)
SortedDesc(I, key) ==
    IF I = {} THEN <<>>
    ELSE LET m == CHOOSE i \in I :
                     \A x \in I : key[i] > key[x] \/ (key[i] = key[x] /\ i <= x)
         IN  <<m>> \o SortedDesc(I \ {m}, key)

\* Mutant of JudgeStats: every record of the store is counted for every
\* category.
JudgeStats_AllKeys(rv, j) ==
    LET K == DOMAIN rv
        minor == CountLevel(rv, K, "Minor Issues")
        major == CountLevel(rv, K, "Major Issues")
    IN  [judge_category |-> JudgeCategories[j + 1],
         total |-> Cardinality(K),
         no_issues |-> CountLevel(rv, K, "No Issues"),
         minor_issues |-> minor,
         major_issues |-> major,
         rate_key |-> RateKey(minor + major, Cardinality(K)),
         issue_rate |-> Percent(minor + major, Cardinality(K)),
         no_issues_pct |-> Percent(CountLevel(rv, K, "No Issues"), Cardinality(K)),
         minor_issues_pct |-> Percent(minor, Cardinality(K)),
         major_issues_pct |-> Percent(major, Cardinality(K))]

\* judge_stats[judge_name] and the rates derived from it, for the category
\* of judge index j (zeros when the store has no record of the category).
JudgeStats(rv, j) ==
    LET K == {k \in DOMAIN rv : k[2] = j}
        minor == CountLevel(rv, K, "Minor Issues")
        major == CountLevel(rv, K, "Major Issues")
    IN  [judge_category |-> JudgeCategories[j + 1],
         total |-> Cardinality(K),
         no_issues |-> CountLevel(rv, K, "No Issues"),
         minor_issues |-> minor,
         major_issues |-> major,
         rate_key |-> RateKey(minor + major, Cardinality(K)),
         issue_rate |-> Percent(minor + major, Cardinality(K)),
         no_issues_pct |-> Percent(CountLevel(rv, K, "No Issues"), Cardinality(K)),
         minor_issues_pct |-> Percent(minor, Cardinality(K)),
         major_issues_pct |-> Percent(major, Cardinality(K))]

\* The statistics of the categories in the order of judge_categories.
JudgeList(rv) == [n \in 1..total_judges |-> JudgeStats(rv, n - 1)]

\* judge_list sorted by the issue rate, highest first.
SortedJudgeList(rv) ==
    LET order == SortedDesc(1..total_judges,
                            [n \in 1..total_judges |-> JudgeList(rv)[n].rate_key])
    IN  [n \in 1..total_judges |-> JudgeList(rv)[order[n]]]

\* Mutant of SortedExportRows: the rows stay in the order of the category
\* list.
SortedExportRows_Unsorted(rv) == JudgeList(rv)

\* export_data sorted by issue_rate_percent, the rounded rate, highest first.
SortedExportRows(rv) ==
    LET order == SortedDesc(1..total_judges,
                            [n \in 1..total_judges |-> JudgeList(rv)[n].issue_rate])
    IN  [n \in 1..total_judges |-> JudgeList(rv)[order[n]]]

\* Mutant of CalculateStats: the overall issue rate counts the major issues
\* only.
CalculateStats_MajorOnly(rv) ==
    LET completed == Cardinality(DOMAIN rv)
        no == CountLevel(rv, DOMAIN rv, "No Issues")
        minor == CountLevel(rv, DOMAIN rv, "Minor Issues")
        major == CountLevel(rv, DOMAIN rv, "Major Issues")
    IN  [total_possible_reviews |-> total_insights * total_judges,
         total_completed |-> completed,
         insights_reviewed |-> Cardinality({k[1] : k \in DOMAIN rv}),
         no_issues |-> no,
         minor_issues |-> minor,
         major_issues |-> major,
         no_issues_pct |-> Percent(no, completed),
         minor_issues_pct |-> Percent(minor, completed),
         major_issues_pct |-> Percent(major, completed),
         completion_pct |-> Percent(completed, total_insights * total_judges),
         issue_rate |-> Percent(major, completed),
         judges |-> SortedJudgeList(rv)]

\* calculate_and_display_stats: the summary and the breakdown by category.
CalculateStats(rv) ==
    LET completed == Cardinality(DOMAIN rv)
        no == CountLevel(rv, DOMAIN rv, "No Issues")
        minor == CountLevel(rv, DOMAIN rv, "Minor Issues")
        major == CountLevel(rv, DOMAIN rv, "Major Issues")
    IN  [total_possible_reviews |-> total_insights * total_judges,
         total_completed |-> completed,
         insights_reviewed |-> Cardinality({k[1] : k \in DOMAIN rv}),
         no_issues |-> no,
         minor_issues |-> minor,
         major_issues |-> major,
         no_issues_pct |-> Percent(no, completed),
         minor_issues_pct |-> Percent(minor, completed),
         major_issues_pct |-> Percent(major, completed),
         completion_pct |-> Percent(completed, total_insights * total_judges),
         issue_rate |-> Percent(minor + major, completed),
         judges |-> SortedJudgeList(rv)]

\* No statistics window has been opened.
NoStats == [total_possible_reviews |-> -1]

\* No export has been written.
NoExport == [kind |-> "", rows |-> <<>>]

\* Mutant of ResultRow: the row carries the 0-based insight index.
ResultRow_ZeroBased(rv, k) ==
    [insight_index |-> k[1],
     judge_category |-> JudgeCategories[k[2] + 1],
     metajudge_assessment |-> rv[k].issue_level,
     metajudge_explanation |-> rv[k].explanation]

\* One row of the results CSV, for the record at key k.
ResultRow(rv, k) ==
    [insight_index |-> k[1] + 1,
     judge_category |-> JudgeCategories[k[2] + 1],
     metajudge_assessment |-> rv[k].issue_level,
     metajudge_explanation |-> rv[k].explanation]

\* Mutant of ResultKey: sort_by is ignored, the rows are always sorted by
\* the insight first.
ResultKey_IgnoreSortBy(k, sort_by) ==
    (k[1] + 1) * (NumJudgeCategories + 1) + AlphaRank(JudgeCategories[k[2] + 1])

\* The sort key of a results row: (judge_category, insight_index) for
\* sort_by 'judge', (insight_index, judge_category) otherwise.
ResultKey(k, sort_by) ==
    IF sort_by = "judge"
    THEN AlphaRank(JudgeCategories[k[2] + 1]) * (total_insights + 1) + k[1] + 1
    ELSE (k[1] + 1) * (NumJudgeCategories + 1)
             + AlphaRank(JudgeCategories[k[2] + 1])

\* export_df.sort_values(by=[...]): the rows by increasing key.
RECURSIVE ResultRows(_, _, _)
ResultRows(rv, K, sort_by) ==
    IF K = {} THEN <<>>
    ELSE LET k == CHOOSE x \in K :
                     \A y \in K : ResultKey(x, sort_by) <= ResultKey(y, sort_by)
         IN  <<ResultRow(rv, k)>> \o ResultRows(rv, K \ {k}, sort_by)

----------------------------------------------------------------------------
\* ReviewWindow.__init__: cursor (0, 0), empty store, setup_review_ui, then
\* load_current_review (which arms the autosave timer through the trace).

SessionInit ==
    /\ current_insight_index = 0
    /\ current_judge_index = 0
    /\ reviews = EmptyReviews
    /\ issue_level_var = ""
    /\ explanation_text = <<>>
    /\ review_status_var = "PENDING"
    /\ autosave_job = 1
    /\ after_autosave = After(<<>>, 1, AutosaveDelay, <<0, 0>>)
    /\ now = 0
    /\ after_next = 0
    /\ window_exists = TRUE
    /\ file_state = "absent"
    /\ file_data = NoData
    /\ file_path = <<>>
    /\ saved = <<>>
    /\ insights_file_var = InsightsCsv
    /\ workout_file_var = WorkoutCsv
    /\ current_save_file = GenerateSaveFilename(InsightsCsv, WorkoutCsv)
    /\ last = [op |-> "init", shown |-> "", failed |-> FALSE,
               burst |-> <<>>, fired |-> 0,
               attempt |-> FALSE, key |-> <<0, 0>>,
               level |-> "", expl |-> <<>>, ok |-> FALSE, had |-> FALSE,
               changed |-> FALSE, arg |-> 0]
    /\ prev = [op |-> "init", key |-> <<0, 0>>]
    /\ trail = <<>>
    /\ stats_shown = NoStats
    /\ exported = NoExport

\* A fresh review session over a loaded dataset; every write succeeds.
Init ==
    /\ \E d \in Datasets : total_insights = d[1] /\ total_judges = d[2]
    /\ edits_left = MaxEdits
    /\ fails_left = 0
    /\ tracking = FALSE
    /\ timed = FALSE
    /\ SessionInit

\* The same session on a disk where writes of the save file may fail.
FailInit ==
    /\ \E d \in FailDatasets : total_insights = d[1] /\ total_judges = d[2]
    /\ edits_left = MaxEdits
    /\ fails_left = MaxWriteFailures
    /\ tracking = FALSE
    /\ timed = FALSE
    /\ SessionInit

\* The datasets of the sessions reviewed with the "No Issues" hotkey.
HotkeyDatasets == {<<1, 2>>, <<2, 2>>, <<3, 1>>, <<2, 3>>}

\* A fresh session in which the reviewer presses the "No Issues" hotkey up
\* to MaxPresses times.
HotkeyInit ==
    /\ \E d \in HotkeyDatasets : total_insights = d[1] /\ total_judges = d[2]
    /\ edits_left = MaxPresses
    /\ fails_left = 0
    /\ tracking = FALSE
    /\ timed = FALSE
    /\ SessionInit

\* Records of earlier sessions found in save files.
StoredRecords ==
    {[issue_level |-> "No Issues", explanation |-> <<>>],
     [issue_level |-> "Major Issues", explanation |-> <<"a", "\n", "a">>]}

\* The stores with at most MaxStored records.
Stores ==
    UNION {[D -> StoredRecords] :
             D \in {X \in SUBSET Units : Cardinality(X) <= MaxStored}}

\* The CSV files chosen in the main window and loaded; no save file is in
\* use yet.
Selected(insights_file, workout_file) ==
    /\ insights_file_var = insights_file
    /\ workout_file_var = workout_file
    /\ current_save_file = <<>>

\* The main window before a session is opened.  The save directory is
\* empty, or holds a save file written by save_review_progress in an
\* earlier run, or such a file with one of the required keys missing.
LoadInit ==
    /\ \E d \in Datasets : total_insights = d[1] /\ total_judges = d[2]
    /\ edits_left = 0
    /\ fails_left = 0
    /\ tracking = FALSE
    /\ timed = FALSE
    /\ current_insight_index = 0
    /\ current_judge_index = 0
    /\ reviews = EmptyReviews
    /\ issue_level_var = ""
    /\ explanation_text = <<>>
    /\ review_status_var = "PENDING"
    /\ autosave_job = 0
    /\ after_autosave = <<>>
    /\ after_next = 0
    /\ now = 0
    /\ window_exists = FALSE
    /\ last = [op |-> "init", shown |-> "", failed |-> FALSE,
               burst |-> <<>>, fired |-> 0,
               attempt |-> FALSE, key |-> <<0, 0>>,
               level |-> "", expl |-> <<>>, ok |-> FALSE, had |-> FALSE,
               changed |-> FALSE, arg |-> 0]
    /\ prev = [op |-> "init", key |-> <<0, 0>>]
    /\ trail = <<>>
    /\ stats_shown = NoStats
    /\ exported = NoExport
    /\ Selected(InsightsCsv, WorkoutCsv)
    /\ \/ /\ file_state = "absent"
          /\ file_data = NoData
          /\ file_path = <<>>
          /\ saved = <<>>
       \/ \E rv \in Stores, pos \in Units :
             /\ file_state = "complete"
             /\ file_data = SaveData(rv, pos[1], pos[2])
             /\ file_path = GenerateSaveFilename(InsightsCsv, WorkoutCsv)
             /\ saved = <<[reviews |-> rv, key |-> pos]>>
       \/ \E rv \in Stores, pos \in Units, k \in RequiredKeys :
             /\ file_state = "complete"
             /\ file_data = [SaveData(rv, pos[1], pos[2])
                                EXCEPT !.keys = SaveKeys \ {k}]
             /\ file_path = GenerateSaveFilename(InsightsCsv, WorkoutCsv)
             /\ saved = <<>>

\* The main window before a session is opened, whatever the save directory
\* holds.
MainInit ==
    /\ edits_left = 0
    /\ fails_left = 0
    /\ tracking = FALSE
    /\ timed = FALSE
    /\ current_insight_index = 0
    /\ current_judge_index = 0
    /\ reviews = EmptyReviews
    /\ issue_level_var = ""
    /\ explanation_text = <<>>
    /\ review_status_var = "PENDING"
    /\ autosave_job = 0
    /\ after_autosave = <<>>
    /\ after_next = 0
    /\ now = 0
    /\ window_exists = FALSE
    /\ last = [op |-> "init", shown |-> "", failed |-> FALSE,
               burst |-> <<>>, fired |-> 0,
               attempt |-> FALSE, key |-> <<0, 0>>,
               level |-> "", expl |-> <<>>, ok |-> FALSE, had |-> FALSE,
               changed |-> FALSE, arg |-> 0]
    /\ prev = [op |-> "init", key |-> <<0, 0>>]
    /\ trail = <<>>
    /\ stats_shown = NoStats
    /\ exported = NoExport

\* The ways the key of a record is written in a save file: as str((i, j))
\* writes it, without the blank, without the parentheses, or with a second
\* operand that is no number.
KeyForms == {"canonical", "compact", "bare", "broken"}

KeyText(k, form) ==
    CASE form = "canonical" -> KeyStr(k)
      [] form = "compact" ->
             <<"(">> \o IntStr(k[1]) \o <<",">> \o IntStr(k[2]) \o <<")">>
      [] form = "bare" -> IntStr(k[1]) \o <<",", " ">> \o IntStr(k[2])
      [] form = "broken" -> <<"(">> \o IntStr(k[1]) \o <<",", " ", "a", ")">>

\* The main window with a save file whose reviews mapping was written by
\* hand or by another tool: every key of it in one of the forms.
KeyInit ==
    /\ \E d \in Datasets : total_insights = d[1] /\ total_judges = d[2]
    /\ MainInit
    /\ Selected(InsightsCsv, WorkoutCsv)
    /\ file_state = "complete"
    /\ file_path = GenerateSaveFilename(InsightsCsv, WorkoutCsv)
    /\ saved = <<>>
    /\ \E rv \in Stores, pos \in Units :
          \E form \in [DOMAIN rv -> KeyForms] :
             file_data =
                 [SaveData(rv, pos[1], pos[2]) EXCEPT
                     !.reviews =
                         [t \in {KeyText(k, form[k]) : k \in DOMAIN rv} |->
                             JsonRecord(rv[CHOOSE k \in DOMAIN rv :
                                               KeyText(k, form[k]) = t])]]

\* The workout histories the user may have browsed to.
WorkoutChoices == {WorkoutCsv, OtherDirWorkoutCsv, OtherWorkoutCsv}

\* The main window with the insights and one of the workout histories
\* chosen.  The save directory is empty, or holds under the name
\* generate_save_filename gives the chosen files a save file that an earlier
\* session wrote, over that or another workout history.
NameInit ==
    /\ \E d \in Datasets : total_insights = d[1] /\ total_judges = d[2]
    /\ MainInit
    /\ saved = <<>>
    /\ \E w \in WorkoutChoices :
          /\ Selected(InsightsCsv, w)
          /\ \/ /\ file_state = "absent"
                /\ file_data = NoData
                /\ file_path = <<>>
             \/ \E rv \in Stores, pos \in Units, earlier \in WorkoutChoices :
                   /\ GenerateSaveFilename(InsightsCsv, earlier)
                          = GenerateSaveFilename(InsightsCsv, w)
                   /\ file_state = "complete"
                   /\ file_data = [SaveData(rv, pos[1], pos[2])
                                      EXCEPT !.workout_file = earlier]
                   /\ file_path = GenerateSaveFilename(InsightsCsv, earlier)

\* The main window, with no CSV chosen yet or with the insights and a workout
\* history chosen, and a save file of the same name recording the paths of
\* the CSV files at their present or at an earlier place.
PromptInit ==
    /\ \E d \in Datasets : total_insights = d[1] /\ total_judges = d[2]
    /\ MainInit
    /\ saved = <<>>
    /\ \/ Selected(<<>>, <<>>)
       \/ Selected(InsightsCsv, OtherDirWorkoutCsv)
    /\ file_state = "complete"
    /\ file_path = GenerateSaveFilename(InsightsCsv, WorkoutCsv)
    /\ \E rv \in Stores, pos \in Units :
          \E i \in {InsightsCsv, MovedInsightsCsv},
             w \in {WorkoutCsv, MovedWorkoutCsv, <<>>} :
             file_data = [SaveData(rv, pos[1], pos[2])
                            EXCEPT !.insights_file = i, !.workout_file = w]

\* The numbers of rows the insights file had when the save file was written.
SavedInsightCounts == {1, 2, 3}

\* The numbers of records of the store in the save file.
SavedStoreSizes == {0, 1, 2}

\* The main window with a save file that an earlier session wrote for the
\* same insights file, which had n rows then and has total_insights rows
\* now.  The category list is the same.
ResumeInit ==
    /\ \E d \in Datasets : total_insights = d[1] /\ total_judges = d[2]
    /\ MainInit
    /\ Selected(InsightsCsv, WorkoutCsv)
    /\ file_state = "complete"
    /\ file_path = GenerateSaveFilename(InsightsCsv, WorkoutCsv)
    /\ \E n \in SavedInsightCounts :
          LET U == (0..(n - 1)) \X (0..(total_judges - 1))
          IN  \E D \in SUBSET U, pos \in U :
                 /\ Cardinality(D) \in SavedStoreSizes
                 /\ \E rv \in [D -> StoredRecords] :
                       /\ file_data = [SaveData(rv, pos[1], pos[2])
                                          EXCEPT !.total_insights = n]
                       /\ saved = <<[reviews |-> rv, key |-> pos]>>

\* The datasets of the sessions whose statistics are taken: four insights
\* judged in one category, two insights judged in two, and one insight
\* judged in four (the fourth category is the first in alphabetical order).
StatDatasets == {<<4, 1>>, <<2, 2>>, <<1, 4>>}

\* The records a session stores: the three issue levels, and an explanation
\* committed before any level was selected.
StatRecords ==
    {[issue_level |-> "", explanation |-> <<"a">>],
     [issue_level |-> "No Issues", explanation |-> <<>>],
     [issue_level |-> "Minor Issues", explanation |-> <<"a">>],
     [issue_level |-> "Major Issues", explanation |-> <<"a">>]}

\* The main window with a save file written by an earlier session: any
\* part of the grid reviewed, with any of the issue levels.
StatsInit ==
    /\ \E d \in StatDatasets : total_insights = d[1] /\ total_judges = d[2]
    /\ MainInit
    /\ Selected(InsightsCsv, WorkoutCsv)
    /\ file_state = "complete"
    /\ file_path = GenerateSaveFilename(InsightsCsv, WorkoutCsv)
    /\ \E D \in SUBSET Units :
          \E rv \in [D -> StatRecords] :
             /\ file_data = SaveData(rv, 0, 0)
             /\ saved = <<[reviews |-> rv, key |-> <<0, 0>>]>>

\* A session in which the reviewer only edits the assessment, with the
\* passage of time modelled.
DebounceInit ==
    /\ \E d \in Datasets : total_insights = d[1] /\ total_judges = d[2]
    /\ edits_left = MaxEdits
    /\ fails_left = 0
    /\ tracking = FALSE
    /\ timed = TRUE
    /\ SessionInit

\* A session in which the reviewer only navigates, with the navigation
\* history recorded.
NavInit ==
    /\ total_insights \in 1..NavInsights
    /\ total_judges \in (1..NavJudges) \cup {NumJudgeCategories}
    /\ edits_left = 0
    /\ fails_left = 0
    /\ tracking = TRUE
    /\ timed = FALSE
    /\ SessionInit

----------------------------------------------------------------------------
\* Navigation handlers: save_assessment_silent, move, load_current_review.

\* Mutant of Navigate: the cursor moves without save_assessment_silent.
Navigate_NoSave(op, pos, arg, out) ==
    /\ reviews' = reviews
    /\ NoWrite(out)
    /\ current_insight_index' = pos[1]
    /\ current_judge_index' = pos[2]
    /\ LoadCurrentReview(pos[1], pos[2], reviews')
    /\ Record(op, TRUE, issue_level_var, arg, pos)
    /\ UNCHANGED <<total_insights, total_judges, after_next, window_exists,
                   edits_left>>

Navigate(op, pos, arg, out) ==
    /\ SaveAssessmentSilent(issue_level_var, out)
    /\ current_insight_index' = pos[1]
    /\ current_judge_index' = pos[2]
    /\ LoadCurrentReview(pos[1], pos[2], reviews')
    /\ Record(op, TRUE, issue_level_var, arg, pos)
    /\ UNCHANGED <<total_insights, total_judges, after_next, window_exists,
                   edits_left>>

next_review ==
    /\ window_exists
    /\ \E out \in WriteOutcomes :
          Navigate("next_review",
                   NextReviewPos(current_insight_index, current_judge_index),
                   0, out)

previous_review ==
    /\ window_exists
    /\ \E out \in WriteOutcomes :
          Navigate("previous_review",
                   PreviousReviewPos(current_insight_index, current_judge_index),
                   0, out)

previous_insight ==
    /\ window_exists
    /\ \E out \in WriteOutcomes :
          Navigate("previous_insight",
                   PreviousInsightPos(current_insight_index, current_judge_index),
                   0, out)

next_insight ==
    /\ window_exists
    /\ \E out \in WriteOutcomes :
          Navigate("next_insight",
                   NextInsightPos(current_insight_index, current_judge_index),
                   0, out)

previous_judge ==
    /\ window_exists
    /\ \E out \in WriteOutcomes :
          Navigate("previous_judge",
                   PreviousJudgePos(current_insight_index, current_judge_index),
                   0, out)

next_judge ==
    /\ window_exists
    /\ \E out \in WriteOutcomes :
          Navigate("next_judge",
                   NextJudgePos(current_insight_index, current_judge_index),
                   0, out)

\* A rejected jump: messagebox, update_*_display; no save, no move.
JumpRejected(op, arg) ==
    /\ UNCHANGED <<total_insights, total_judges, current_insight_index,
                   current_judge_index, reviews, issue_level_var,
                   explanation_text, review_status_var, autosave_job,
                   after_autosave, after_next, window_exists, file_state,
                   file_data, file_path, saved, edits_left, fails_left>>
    /\ Record(op, FALSE, "", arg, Key)

\* jump_to_insight with a numeric entry n.
jump_to_insight ==
    /\ window_exists
    /\ \E n \in InsightNumbers :
          IF JumpInsightAccepts(n)
          THEN \E out \in WriteOutcomes :
                  Navigate("jump_to_insight", JumpInsightPos(n), n, out)
          ELSE JumpRejected("jump_to_insight", n)

\* jump_to_insight with an entry int() cannot parse (ValueError).
jump_to_insight_invalid ==
    /\ window_exists
    /\ JumpRejected("jump_to_insight_invalid", 0)

jump_to_judge ==
    /\ window_exists
    /\ \E n \in JudgeNumbers :
          IF JumpJudgeAccepts(n)
          THEN \E out \in WriteOutcomes :
                  Navigate("jump_to_judge",
                           JumpJudgePos(current_insight_index, n), n, out)
          ELSE JumpRejected("jump_to_judge", n)

jump_to_judge_invalid ==
    /\ window_exists
    /\ JumpRejected("jump_to_judge_invalid", 0)

----------------------------------------------------------------------------
\* Edits of the assessment.

\* A click on one of the three radio buttons; the write trace of
\* issue_level_var calls on_assessment_change.
select_issue_level ==
    /\ window_exists
    /\ edits_left > 0
    /\ \E l \in RadioValues : issue_level_var' = l
    /\ UNCHANGED <<current_insight_index, current_judge_index>>
    /\ OnAssessmentChange
    /\ edits_left' = edits_left - 1
    /\ UNCHANGED <<total_insights, total_judges, reviews, explanation_text,
                   review_status_var, after_next, window_exists, file_state,
                   file_data, file_path, saved, fails_left>>
    /\ Record("select_issue_level", FALSE, "", 0, Key)

\* A key released in the explanation box (a character typed, or the last
\* one erased); <KeyRelease> calls on_assessment_change.
on_key_release ==
    /\ window_exists
    /\ edits_left > 0
    /\ \/ /\ Len(explanation_text) < MaxLen
          /\ \E c \in Chars : explanation_text' = Append(explanation_text, c)
       \/ /\ explanation_text # <<>>
          /\ explanation_text' =
                 SubSeq(explanation_text, 1, Len(explanation_text) - 1)
    /\ UNCHANGED <<current_insight_index, current_judge_index>>
    /\ OnAssessmentChange
    /\ edits_left' = edits_left - 1
    /\ UNCHANGED <<total_insights, total_judges, reviews, issue_level_var,
                   review_status_var, after_next, window_exists, file_state,
                   file_data, file_path, saved, fails_left>>
    /\ Record("on_key_release", FALSE, "", 0, Key)

\* Key 1 outside the text boxes: set "No Issues", save, schedule next_review.
hotkey_no_issues ==
    /\ window_exists
    /\ edits_left > 0
    /\ issue_level_var' = "No Issues"
    /\ UNCHANGED <<current_insight_index, current_judge_index>>
    /\ OnAssessmentChange
    /\ \E out \in WriteOutcomes : SaveAssessmentSilent("No Issues", out)
    /\ review_status_var' =
           IF SasOk("No Issues") THEN "REVIEWED" ELSE review_status_var
    /\ after_next' = after_next + 1
    /\ edits_left' = edits_left - 1
    /\ Record("hotkey_no_issues", TRUE, "No Issues", 0, Key)
    /\ UNCHANGED <<total_insights, total_judges, explanation_text,
                   window_exists>>

HotkeySet(op, lvl) ==
    /\ window_exists
    /\ edits_left > 0
    /\ issue_level_var' = lvl
    /\ UNCHANGED <<current_insight_index, current_judge_index>>
    /\ OnAssessmentChange
    /\ edits_left' = edits_left - 1
    /\ UNCHANGED <<total_insights, total_judges, reviews, explanation_text,
                   review_status_var, after_next, window_exists, file_state,
                   file_data, file_path, saved, fails_left>>
    /\ Record(op, FALSE, "", 0, Key)

hotkey_minor_issues == HotkeySet("hotkey_minor_issues", "Minor Issues")

hotkey_major_issues == HotkeySet("hotkey_major_issues", "Major Issues")

----------------------------------------------------------------------------
\* Saves, timers and close.

\* "Save Now": save_assessment_silent; when that returns False the save file
\* is written all the same.
manual_save ==
    /\ window_exists
    /\ reviews' = SasReviews(issue_level_var)
    /\ \E out \in WriteOutcomes :
          SaveReviewProgress(reviews', current_insight_index,
                             current_judge_index, out)
    /\ review_status_var' =
           IF SasOk(issue_level_var) THEN "REVIEWED" ELSE review_status_var
    /\ Record("manual_save", TRUE, issue_level_var, 0, Key)
    /\ UNCHANGED <<total_insights, total_judges, current_insight_index,
                   current_judge_index, issue_level_var, explanation_text,
                   autosave_job, after_autosave, after_next, window_exists,
                   edits_left>>

\* The 500 ms timer fires: save_assessment_silent, then clear the slot.
safe_auto_save ==
    /\ \E id \in DOMAIN after_autosave :
          /\ timed => after_autosave[id].due <= now
          /\ after_autosave' = Without(after_autosave, id)
    /\ \E out \in WriteOutcomes : SaveAssessmentSilent(issue_level_var, out)
    /\ review_status_var' =
           IF SasOk(issue_level_var) THEN "REVIEWED" ELSE review_status_var
    /\ autosave_job' = 0
    /\ Record("safe_auto_save", TRUE, issue_level_var, 0, Key)
    /\ UNCHANGED <<total_insights, total_judges, current_insight_index,
                   current_judge_index, issue_level_var, explanation_text,
                   after_next, window_exists, edits_left>>

\* The 100 ms deferred next_review scheduled by hotkey_no_issues.  Once the
\* window is destroyed save_assessment_silent returns False, the cursor still
\* moves and load_current_review stops with a TclError at its first widget.
deferred_next_review ==
    /\ after_next > 0
    /\ after_next' = after_next - 1
    /\ LET pos == NextReviewPos(current_insight_index, current_judge_index)
       IN  /\ \E out \in WriteOutcomes :
                 SaveAssessmentSilent(issue_level_var, out)
           /\ current_insight_index' = pos[1]
           /\ current_judge_index' = pos[2]
           /\ IF window_exists
              THEN LoadCurrentReview(pos[1], pos[2], reviews')
              ELSE UNCHANGED <<issue_level_var, explanation_text,
                               review_status_var, autosave_job, after_autosave>>
    /\ Record("deferred_next_review", TRUE, issue_level_var, 0,
              NextReviewPos(current_insight_index, current_judge_index))
    /\ UNCHANGED <<total_insights, total_judges, window_exists, edits_left>>

\* Mutant of on_window_close: the pending timer is not cancelled.
on_window_close_NoCancel ==
    /\ window_exists
    /\ UNCHANGED <<after_autosave, autosave_job>>
    /\ \E out \in WriteOutcomes : SaveAssessmentSilent(issue_level_var, out)
    /\ review_status_var' =
           IF SasOk(issue_level_var) THEN "REVIEWED" ELSE review_status_var
    /\ window_exists' = FALSE
    /\ Record("on_window_close", TRUE, issue_level_var, 0, Key)
    /\ UNCHANGED <<total_insights, total_judges, current_insight_index,
                   current_judge_index, issue_level_var, explanation_text,
                   after_next, edits_left>>

\* on_window_close: cancel the pending timer, one last
\* save_assessment_silent, destroy the window.
on_window_close ==
    /\ window_exists
    /\ after_autosave' = Cancelled(autosave_job, after_autosave)
    /\ autosave_job' = 0
    /\ \E out \in WriteOutcomes : SaveAssessmentSilent(issue_level_var, out)
    /\ review_status_var' =
           IF SasOk(issue_level_var) THEN "REVIEWED" ELSE review_status_var
    /\ window_exists' = FALSE
    /\ Record("on_window_close", TRUE, issue_level_var, 0, Key)
    /\ UNCHANGED <<total_insights, total_judges, current_insight_index,
                   current_judge_index, issue_level_var, explanation_text,
                   after_next, edits_left>>

----------------------------------------------------------------------------
\* Statistics window and exports of the review window.

\* "View Statistics": a StatisticsWindow is opened and filled by
\* calculate_and_display_stats.
show_statistics ==
    /\ window_exists
    /\ stats_shown' = CalculateStats(reviews)
    /\ KeepPaths
    /\ UNCHANGED <<total_insights, total_judges, current_insight_index,
                   current_judge_index, reviews, issue_level_var,
                   explanation_text, review_status_var, autosave_job,
                   after_autosave, after_next, window_exists, file_state,
                   file_data, file_path, saved, edits_left, fails_left,
                   exported>>
    /\ Log("show_statistics", FALSE, "", 0, Key)

\* "Export Statistics" of an open statistics window: nothing for an empty
\* store or when the file dialog is cancelled, else one row per category.
export_statistics ==
    /\ window_exists
    /\ stats_shown # NoStats
    /\ KeepPaths
    /\ UNCHANGED <<total_insights, total_judges, current_insight_index,
                   current_judge_index, reviews, issue_level_var,
                   explanation_text, review_status_var, autosave_job,
                   after_autosave, after_next, window_exists, file_state,
                   file_data, file_path, saved, edits_left, fails_left,
                   stats_shown>>
    /\ \E chosen \in BOOLEAN :
          /\ exported' =
                 IF chosen /\ reviews # EmptyReviews
                 THEN [kind |-> "statistics", rows |-> SortedExportRows(reviews)]
                 ELSE exported
          /\ Log("export_statistics", FALSE, "",
                 IF chosen /\ reviews # EmptyReviews THEN 1 ELSE 0, Key)

\* insights_df.iloc[insight_idx] or judge_categories[judge_idx] raises
\* IndexError for an entry of the store.
LookupRaises(rv) ==
    \E k \in DOMAIN rv : k[1] >= total_insights \/ k[2] >= total_judges

\* "Export Results": nothing for an empty store, when the sort dialog is
\* closed or the file dialog cancelled, else one row per record; an
\* exception while the rows are built is reported and nothing is written
\* (arg 2).
export_results ==
    /\ window_exists
    /\ KeepPaths
    /\ UNCHANGED <<total_insights, total_judges, current_insight_index,
                   current_judge_index, reviews, issue_level_var,
                   explanation_text, review_status_var, autosave_job,
                   after_autosave, after_next, window_exists, file_state,
                   file_data, file_path, saved, edits_left, fails_left,
                   stats_shown>>
    /\ \E sort_choice \in {"insight", "judge", ""}, chosen \in BOOLEAN :
          LET asked == reviews # EmptyReviews /\ sort_choice # "" /\ chosen
              written == asked /\ ~LookupRaises(reviews)
          IN  /\ exported' =
                     IF written
                     THEN [kind |-> sort_choice,
                           rows |-> ResultRows(reviews, DOMAIN reviews,
                                               sort_choice)]
                     ELSE exported
              /\ Log("export_results", FALSE, "",
                     IF written THEN 1 ELSE IF asked THEN 2 ELSE 0, Key)

----------------------------------------------------------------------------
\* Main window: opening a review session.

\* ReviewWindow.__init__ on a new Toplevel, then the store and cursor given
\* by the caller and load_current_review, which arms the autosave timer.
\* Callbacks left by an earlier, destroyed window do not act on this one.
OpenWindow(rv, pos) ==
    /\ window_exists' = TRUE
    /\ reviews' = rv
    /\ current_insight_index' = pos[1]
    /\ current_judge_index' = pos[2]
    /\ LoadBuffer(pos[1], pos[2], rv)
    /\ autosave_job' = 1
    /\ after_autosave' = After(<<>>, 1, now + AutosaveDelay, pos)
    /\ after_next' = 0

\* No session is opened.
NoWindow ==
    UNCHANGED <<window_exists, reviews, current_insight_index,
                current_judge_index, issue_level_var, explanation_text,
                review_status_var, autosave_job, after_autosave, after_next>>

KeepFile == UNCHANGED <<file_state, file_data, file_path, saved, fails_left>>

\* The outcome of an operation of the main window: arg is 1 when a session
\* was opened from the save file, 2 when a fresh one was started with no
\* save file to discard, 7 when one was started after discarding the save
\* file, 3 when opening the session from the save file stopped with an
\* exception, 4 to 6 when a prompt for a missing CSV was declined, else 0.
MainRecord(op, arg) ==
    /\ History(op, FALSE, "", arg, Key)
    /\ UNCHANGED <<total_insights, total_judges, edits_left>>

\* load_existing_review when eval(k) raises: ReviewWindow.__init__ has shown
\* unit (0, 0) of an empty store and armed the timer, the store and the
\* cursor of the file have been assigned, load_current_review is not
\* reached; Tk reports the exception and the window stays.
OpenWindowRaised(fd) ==
    /\ window_exists' = TRUE
    /\ reviews' = RawReviews(fd)
    /\ current_insight_index' = LoadedPos(fd)[1]
    /\ current_judge_index' = LoadedPos(fd)[2]
    /\ LoadBuffer(0, 0, EmptyReviews)
    /\ autosave_job' = 1
    /\ after_autosave' = After(<<>>, 1, now + AutosaveDelay, <<0, 0>>)
    /\ after_next' = 0

\* load_existing_review once load_review_progress has returned the data.
OpenLoaded(op, fd) ==
    IF KeyEvalRaises(fd)
    THEN OpenWindowRaised(fd) /\ MainRecord(op, 3)
    ELSE OpenWindow(LoadedReviews(fd), LoadedPos(fd)) /\ MainRecord(op, 1)

\* save_data.get("insights_file", "") and save_data.get("workout_file", "")
InsightsPathOf(fd) ==
    IF "insights_file" \in fd.keys THEN fd.insights_file ELSE <<>>

WorkoutPathOf(fd) ==
    IF "workout_file" \in fd.keys THEN fd.workout_file ELSE <<>>

\* The answers of _prompt_for_file: the path the user locates, or <<>> for
\* None when the user declines.
LocatedInsights == {<<>>, InsightsCsv}
LocatedWorkout == {<<>>, WorkoutCsv}

\* Mutant of LoadCancelled: the insights path of the file is shown in the
\* main window before the load is given up.
LoadCancelled_PathShown(op, arg) ==
    /\ NoWindow
    /\ KeepFile
    /\ insights_file_var' = MovedInsightsCsv
    /\ UNCHANGED <<workout_file_var, current_save_file>>
    /\ MainRecord(op, arg)

\* load_review_progress returned None, or the file was not accepted.
LoadCancelled(op, arg) ==
    NoWindow /\ KeepFile /\ KeepPaths /\ MainRecord(op, arg)

\* load_existing_review(save_file), with load_review_progress.  A file that
\* json.load cannot read gives "Load Error".  For a recorded path that does
\* not exist the user is asked to locate the CSV: the insights first, then
\* the workout history if one is recorded.  A declined prompt ends the load
\* (arg 4: insights declined; 5: workout declined; 6: workout declined after
\* the insights were located).  Otherwise the paths are shown in the main
\* window, the save file becomes the current one, is rewritten if a path was
\* replaced, and the session is opened.
LoadExistingReview(op) ==
    IF file_state # "complete"
    THEN LoadCancelled(op, 0)
    ELSE LET old_i == InsightsPathOf(file_data)
             old_w == WorkoutPathOf(file_data)
             ask_i == ~PathExists(old_i)
             ask_w == old_w # <<>> /\ ~PathExists(old_w)
         IN  \E new_i \in IF ask_i THEN LocatedInsights ELSE {old_i} :
                IF new_i = <<>>
                THEN LoadCancelled(op, 4)
                ELSE \E new_w \in IF ask_w THEN LocatedWorkout ELSE {old_w} :
                        IF ask_w /\ new_w = <<>>
                        THEN LoadCancelled(op, IF ask_i THEN 6 ELSE 5)
                        ELSE /\ insights_file_var' = new_i
                             /\ workout_file_var' = new_w
                             /\ current_save_file' = file_path
                             /\ file_data' =
                                   [file_data EXCEPT
                                      !.keys = @ \cup
                                         (IF ask_i THEN {"insights_file"} ELSE {})
                                         \cup
                                         (IF ask_w THEN {"workout_file"} ELSE {}),
                                      !.insights_file = IF ask_i THEN new_i ELSE @,
                                      !.workout_file = IF ask_w THEN new_w ELSE @]
                             /\ UNCHANGED <<file_state, file_path, saved,
                                            fails_left>>
                             /\ OpenLoaded(op, file_data)

\* "Load Last Review": the newest save file, if there is one.
load_last_review ==
    /\ ~window_exists
    /\ IF file_state = "absent"
       THEN LoadCancelled("load_last_review", 0)
       ELSE LoadExistingReview("load_last_review")

\* "Load Review File": the file chosen must parse and hold the required
\* keys.
load_specific_file ==
    /\ ~window_exists
    /\ file_state # "absent"
    /\ IF file_state = "complete" /\ RequiredKeys \subseteq file_data.keys
       THEN LoadExistingReview("load_specific_file")
       ELSE LoadCancelled("load_specific_file", 0)

\* find_existing_save_file(insights_file, workout_file)
FindExistingSaveFile(insights_file, workout_file) ==
    /\ file_state # "absent"
    /\ file_path = GenerateSaveFilename(insights_file, workout_file)

\* Mutant of StartFresh: the existing save file is not unlinked.
StartFresh_NoUnlink(op, unlink) ==
    /\ KeepFile
    /\ current_save_file' =
           GenerateSaveFilename(insights_file_var, workout_file_var)
    /\ UNCHANGED <<insights_file_var, workout_file_var>>
    /\ OpenWindow(EmptyReviews, <<0, 0>>)
    /\ MainRecord(op, IF unlink THEN 7 ELSE 2)

\* The end of start_new_review: an existing save file has been unlinked (or
\* there was none), the save file name is set and start_review opens a new
\* ReviewWindow.
StartFresh(op, unlink) ==
    /\ IF unlink
       THEN /\ file_state' = "absent"
            /\ file_data' = NoData
            /\ file_path' = <<>>
            /\ saved' = <<>>
            /\ UNCHANGED fails_left
       ELSE KeepFile
    /\ current_save_file' =
           GenerateSaveFilename(insights_file_var, workout_file_var)
    /\ UNCHANGED <<insights_file_var, workout_file_var>>
    /\ OpenWindow(EmptyReviews, <<0, 0>>)
    /\ MainRecord(op, IF unlink THEN 7 ELSE 2)

\* "Start New Review", enabled once load_data has read the insights: with a
\* save file for the same inputs the user is asked to continue it (yes), to
\* start fresh (no) or to go back (cancel).
start_new_review ==
    /\ ~window_exists
    /\ insights_file_var # <<>>
    /\ IF FindExistingSaveFile(insights_file_var, workout_file_var)
       THEN \E response \in {"yes", "no", "cancel"} :
               CASE response = "yes" -> LoadExistingReview("start_new_review")
                 [] response = "no" -> StartFresh("start_new_review", TRUE)
                 [] response = "cancel" ->
                        LoadCancelled("start_new_review", 0)
       ELSE StartFresh("start_new_review", FALSE)

\* Half a debounce delay passes in the Tk event loop.  Time is followed up
\* to MaxTicks steps, and further while a callback is not yet due.
Tick ==
    /\ timed
    /\ \/ now < MaxTicks * (AutosaveDelay \div 2)
       \/ \E id \in DOMAIN after_autosave : after_autosave[id].due > now
    /\ now' = now + AutosaveDelay \div 2
    /\ UNCHANGED <<total_insights, total_judges, current_insight_index,
                   current_judge_index, reviews, issue_level_var,
                   explanation_text, review_status_var, autosave_job,
                   after_autosave, after_next, window_exists, file_state,
                   file_data, file_path, saved, insights_file_var,
                   workout_file_var, current_save_file, stats_shown,
                   exported, edits_left, fails_left, tracking, timed, last,
                   prev, trail>>

----------------------------------------------------------------------------
Next ==
    \/ next_review
    \/ previous_review
    \/ previous_insight
    \/ next_insight
    \/ previous_judge
    \/ next_judge
    \/ jump_to_insight
    \/ jump_to_insight_invalid
    \/ jump_to_judge
    \/ jump_to_judge_invalid
    \/ select_issue_level
    \/ on_key_release
    \/ hotkey_no_issues
    \/ hotkey_minor_issues
    \/ hotkey_major_issues
    \/ manual_save
    \/ safe_auto_save
    \/ deferred_next_review
    \/ on_window_close

Spec == Init /\ [][Next]_vars

FailSpec == FailInit /\ [][Next]_vars

NavNext ==
    \/ next_review
    \/ previous_review
    \/ previous_insight
    \/ next_insight
    \/ previous_judge
    \/ next_judge
    \/ jump_to_insight
    \/ jump_to_insight_invalid
    \/ jump_to_judge
    \/ jump_to_judge_invalid

NavSpec == NavInit /\ [][NavNext]_vars

LoadNext ==
    \/ load_last_review
    \/ load_specific_file
    \/ start_new_review
    \/ next_review
    \/ next_judge
    \/ manual_save
    \/ safe_auto_save
    \/ on_window_close

\* Sessions opened from the main window, saved, closed and loaded again.
LoadSpec == LoadInit /\ [][LoadNext]_vars

KeyNext ==
    \/ load_last_review
    \/ load_specific_file
    \/ start_new_review
    \/ next_review
    \/ manual_save
    \/ safe_auto_save

\* Sessions opened from save files with keys in any of the forms.
KeySpec == KeyInit /\ [][KeyNext]_vars

NameNext ==
    \/ start_new_review
    \/ load_last_review
    \/ next_review
    \/ manual_save
    \/ on_window_close

\* Sessions started from the main window over one of the pairings.
NameSpec == NameInit /\ [][NameNext]_vars

\* Commits and rejected commits through each kind of operation of the review
\* window, with the statistics window and the exports.
StoreNext ==
    \/ select_issue_level
    \/ hotkey_no_issues
    \/ deferred_next_review
    \/ next_review
    \/ jump_to_judge
    \/ manual_save
    \/ safe_auto_save
    \/ show_statistics
    \/ export_statistics
    \/ export_results

StoreSpec == Init /\ [][StoreNext]_vars

TallyNext ==
    \/ on_key_release
    \/ select_issue_level
    \/ next_review
    \/ show_statistics
    \/ export_statistics

\* Fresh sessions in which explanations are typed, levels selected, units
\* committed by "Next" and the statistics taken.
TallySpec == Init /\ [][TallyNext]_vars

HotkeyNext ==
    \/ hotkey_no_issues
    \/ deferred_next_review
    \/ safe_auto_save

\* Presses of the "No Issues" hotkey, their deferred advances and the
\* autosave timer, in any interleaving.
HotkeySpec == HotkeyInit /\ [][HotkeyNext]_vars

PromptNext ==
    \/ load_last_review
    \/ load_specific_file
    \/ start_new_review
    \/ next_review
    \/ manual_save

\* Loads of save files whose CSV files may have been moved.
PromptSpec == PromptInit /\ [][PromptNext]_vars

ResumeNext ==
    \/ load_last_review
    \/ load_specific_file
    \/ next_review
    \/ next_insight
    \/ manual_save
    \/ show_statistics
    \/ export_results

\* Sessions continued from the save file of an insights file whose number
\* of rows may have changed since.
ResumeSpec == ResumeInit /\ [][ResumeNext]_vars

StatsNext ==
    \/ load_last_review
    \/ show_statistics
    \/ export_statistics
    \/ export_results

\* Sessions continued from a save file, their statistics and exports.
StatsSpec == StatsInit /\ [][StatsNext]_vars

DebounceNext ==
    \/ select_issue_level
    \/ on_key_release
    \/ hotkey_minor_issues
    \/ hotkey_major_issues
    \/ safe_auto_save
    \/ Tick

\* The Tk main loop keeps running: time passes and a due callback is run.
DebounceSpec ==
    /\ DebounceInit
    /\ [][DebounceNext]_vars
    /\ WF_vars(Tick)
    /\ WF_vars(safe_auto_save)

TypeOK ==
    /\ current_insight_index \in 0..(total_insights - 1)
    /\ current_judge_index \in 0..(total_judges - 1)
    /\ autosave_job \in 0..2
    /\ file_state \in {"absent", "partial", "complete"}

----------------------------------------------------------------------------
\* Vocabulary of the properties.

NavOps ==
    {"next_review", "previous_review", "previous_insight", "next_insight",
     "previous_judge", "next_judge", "jump_to_insight", "jump_to_judge",
     "deferred_next_review"}

\* Position of a unit in row-major order.
Rank(p) == p[1] * total_judges + p[2]

Trimmed(e) == Strip(TextGet(e))

\* The record a buffer (level, explanation text) is stored as.
StoredAs(lvl, e) == [issue_level |-> lvl, explanation |-> Trimmed(e)]

\* A buffer holding a valid assessment.
ValidAssessment(lvl, e) ==
    \/ lvl = "No Issues"
    \/ lvl \in IssueLevels /\ Trimmed(e) # <<>>

\* A buffer failing validation: an issue level without explanation.
FailsValidation(lvl, e) == lvl \in IssueLevels /\ Trimmed(e) = <<>>

\* The last operation was a navigation transition of the open window that
\* left the unit last.key.
Navigated == last.op \in NavOps /\ last.attempt /\ window_exists

----------------------------------------------------------------------------
\* C1: after every navigation transition (the six moves and the accepted
\* jumps), if the edit buffer at the unit left held a valid assessment (No
\* Issues, or Minor/Major Issues with an explanation that is non-empty once
\* trimmed), the store maps the key of the unit left to that assessment, its
\* explanation trimmed, whether or not the autosave timer had fired.
C1_NavigationCommitsValidEdit ==
    (Navigated /\ ValidAssessment(last.level, last.expl)) =>
        /\ last.key \in DOMAIN reviews
        /\ reviews[last.key] = StoredAs(last.level, last.expl)

\* A navigation left a unit whose valid Minor/Major assessment was not in
\* the store yet (the timer had not fired), and the cursor moved on.
C1_Witness ==
    /\ Navigated
    /\ last.level \in IssueLevels
    /\ ValidAssessment(last.level, last.expl)
    /\ last.changed
    /\ Key # last.key
    /\ reviews[last.key].issue_level = last.level

\* C2: when the pending assessment fails validation (Minor/Major Issues with
\* an empty explanation), a navigation transition does not advance: the
\* cursor after it is the cursor before it, and the assessment is not saved.
C2_InvalidEditBlocksNavigation ==
    (Navigated /\ FailsValidation(last.level, last.expl)) =>
        /\ Key = last.key
        /\ ~last.ok

\* C3: a commit of a record that passes validation at the current key makes
\* a lookup of that key return exactly that record (issue level and trimmed
\* explanation), overwriting what was stored there.
C3_UpsertThenGet ==
    last.ok =>
        /\ last.key \in DOMAIN reviews
        /\ reviews[last.key] = StoredAs(last.level, last.expl)

\* A commit replaced a different record stored at the same key.
C3_Witness ==
    /\ last.ok
    /\ last.had
    /\ last.changed
    /\ reviews[last.key] = StoredAs(last.level, last.expl)

\* C4: a commit with Minor/Major Issues and an explanation that is empty
\* once trimmed is rejected: save_assessment_silent returns False, the store
\* is left exactly as it was and the commit writes nothing to the save file
\* (manual_save writes the file itself after the rejected commit).
C4_RejectedCommitChangesNothing ==
    [][(last'.attempt /\ FailsValidation(last'.level, last'.expl)) =>
          /\ ~last'.ok
          /\ reviews' = reviews
          /\ last'.op # "manual_save" =>
                 (file_state' = file_state /\ file_data' = file_data)]_vars

\* The timer fired on Major Issues without explanation at a unit that
\* already had a record; the record is still the old one.
C4_Witness ==
    /\ last.op = "safe_auto_save"
    /\ last.attempt
    /\ last.level = "Major Issues"
    /\ FailsValidation(last.level, last.expl)
    /\ last.had
    /\ reviews[last.key].issue_level = "No Issues"
    /\ file_state = "complete"

\* C5: every record of the store whose issue level is Minor Issues or Major
\* Issues has a non-empty explanation.
C5_IssueRecordsExplained ==
    \A k \in DOMAIN reviews :
        reviews[k].issue_level \in IssueLevels => reviews[k].explanation # <<>>

\* A Major Issues record with its explanation has just been accepted into
\* the store.
C5_Witness ==
    /\ last.ok
    /\ last.level = "Major Issues"
    /\ last.key \in DOMAIN reviews
    /\ reviews[last.key].issue_level = "Major Issues"

\* C6: the cursor stays inside the grid: 0 <= insight index < total_insights
\* and 0 <= judge index < total_judges.
C6_CursorInGrid ==
    /\ 0 <= current_insight_index
    /\ current_insight_index < total_insights
    /\ 0 <= current_judge_index
    /\ current_judge_index < total_judges

\* A jump above the range has just been rejected at the last unit of a grid
\* with more than one row and column.
C6_Witness ==
    /\ last.op = "jump_to_insight"
    /\ ~last.attempt
    /\ last.arg = total_insights + 1
    /\ Key = <<total_insights - 1, total_judges - 1>>
    /\ total_insights > 1
    /\ total_judges > 1

\* C7: next_unit from (i, j) gives (i, j+1) if j < total_judges-1, else
\* (i+1, 0) if i < total_insights-1, else (0, 0); from (2, 1) in a 3 x 2
\* grid it gives (0, 0); total_insights*total_judges successive calls visit
\* every unit exactly once in row-major order and return to the start.
C7_NextUnitRowMajorCycle ==
    last.op = "next_review" =>
        /\ Key = IF last.key[2] < total_judges - 1
                 THEN <<last.key[1], last.key[2] + 1>>
                 ELSE IF last.key[1] < total_insights - 1
                      THEN <<last.key[1] + 1, 0>>
                      ELSE <<0, 0>>
        /\ (Dataset = <<3, 2>> /\ last.key = <<2, 1>>) => Key = <<0, 0>>
        /\ Len(trail) = GridSize + 1 =>
               /\ trail[GridSize + 1] = trail[1]
               /\ {trail[n] : n \in 1..GridSize} = Units
               /\ \A n \in 1..GridSize :
                      Rank(trail[n + 1]) = (Rank(trail[n]) + 1) % GridSize

\* A full turn of next_review calls over the 3 x 2 grid that started in the
\* middle of the grid.
C7_Witness ==
    /\ last.op = "next_review"
    /\ Dataset = <<3, 2>>
    /\ Len(trail) = GridSize + 1
    /\ trail[1] = <<1, 1>>

\* C8: previous_unit undoes next_unit and next_unit undoes previous_unit at
\* every position, the corners (0, 0) and (last, last) included.
C8_PreviousInvertsNext ==
    /\ (prev.op = "next_review" /\ last.op = "previous_review")
           => Key = prev.key
    /\ (prev.op = "previous_review" /\ last.op = "next_review")
           => Key = prev.key

\* previous_unit has just undone the next_unit that wrapped from the last
\* unit of the grid to (0, 0).
C8_Witness ==
    /\ prev.op = "next_review"
    /\ last.op = "previous_review"
    /\ prev.key = <<total_insights - 1, total_judges - 1>>
    /\ last.key = <<0, 0>>
    /\ total_insights > 1
    /\ total_judges > 1

\* C9 as stated: in the 3 x 2 grid, four consecutive previous_unit calls
\* that start at (0, 0) return the cursor to (0, 0).
C9_FourPreviousReturn ==
    (/\ Dataset = <<3, 2>>
     /\ last.op = "previous_review"
     /\ Len(trail) = 5
     /\ trail[1] = <<0, 0>>) => Key = <<0, 0>>

\* C9 amended: in the 3 x 2 grid, six consecutive previous_unit calls that
\* start at (0, 0) return the cursor to (0, 0), and no fewer do; after four
\* calls the cursor is at (1, 0).
C9_SixPreviousReturn ==
    (/\ Dataset = <<3, 2>>
     /\ last.op = "previous_review"
     /\ trail # <<>>
     /\ trail[1] = <<0, 0>>) =>
        /\ Len(trail) = 7 <=> Key = <<0, 0>>
        /\ Len(trail) = 5 => Key = <<1, 0>>

\* Six previous_unit calls from (0, 0) in the 3 x 2 grid have been made.
C9_Witness ==
    /\ Dataset = <<3, 2>>
    /\ last.op = "previous_review"
    /\ Len(trail) = 7
    /\ trail[1] = <<0, 0>>

\* C10: next_insight and previous_insight from (i, j) give
\* ((i+1) mod total_insights, 0) and ((i-1) mod total_insights, 0): the
\* insight index moves by one with wrap-around, the judge index becomes 0.
C10_InsightStepResetsJudge ==
    /\ last.op = "next_insight" =>
           Key = <<(last.key[1] + 1) % total_insights, 0>>
    /\ last.op = "previous_insight" =>
           Key = <<(last.key[1] + total_insights - 1) % total_insights, 0>>

\* next_insight has just wrapped from the last insight, away from a judge
\* index other than 0.
C10_Witness ==
    /\ last.op = "next_insight"
    /\ last.key[1] = total_insights - 1
    /\ last.key[2] > 0
    /\ total_insights > 1

\* C11: next_judge and previous_judge from (i, j) give
\* (i, (j+1) mod total_judges) and (i, (j-1) mod total_judges): the insight
\* index is unchanged, also when the judge index wraps.
C11_JudgeStepKeepsInsight ==
    /\ last.op = "next_judge" =>
           Key = <<last.key[1], (last.key[2] + 1) % total_judges>>
    /\ last.op = "previous_judge" =>
           Key = <<last.key[1],
                   (last.key[2] + total_judges - 1) % total_judges>>

\* next_judge has just wrapped from the last judge at an insight that is
\* neither the first nor the last.
C11_Witness ==
    /\ last.op = "next_judge"
    /\ last.key[2] = total_judges - 1
    /\ total_judges > 1
    /\ last.key[1] > 0
    /\ last.key[1] < total_insights - 1
    /\ Key = <<last.key[1], 0>>

\* The jumps that fail: a number outside 1..total, or an entry that is not
\* a number.
FailedJump(l) ==
    \/ l.op = "jump_to_insight" /\ (l.arg < 1 \/ l.arg > total_insights)
    \/ l.op = "jump_to_judge" /\ (l.arg < 1 \/ l.arg > total_judges)
    \/ l.op \in {"jump_to_insight_invalid", "jump_to_judge_invalid"}

\* C12: a jump_to_insight or jump_to_judge with a number below 1 or above
\* the total, or with an entry that is not a number, changes neither the
\* cursor nor the store nor the save file.
C12_FailedJumpMutatesNothing ==
    [][FailedJump(last') =>
          /\ current_insight_index' = current_insight_index
          /\ current_judge_index' = current_judge_index
          /\ reviews' = reviews
          /\ file_state' = file_state
          /\ file_data' = file_data]_vars

\* jump_to_insight with a number above total_insights has just failed in a
\* session with a record in the store, a written save file and a valid
\* assessment in the edit buffer.
C12_Witness ==
    /\ last.op = "jump_to_insight"
    /\ last.arg > total_insights
    /\ reviews # EmptyReviews
    /\ file_state = "complete"
    /\ issue_level_var = "No Issues"
    /\ Key \notin DOMAIN reviews

\* C13: an accepted jump is 1-based: jump_to_insight(n) with
\* 1 <= n <= total_insights sets the cursor to (n-1, 0); jump_to_judge(n)
\* with 1 <= n <= total_judges sets the judge index to n-1 and keeps the
\* insight index.
C13_AcceptedJumpOneBased ==
    /\ (last.op = "jump_to_insight" /\ 1 <= last.arg
            /\ last.arg <= total_insights)
           => Key = <<last.arg - 1, 0>>
    /\ (last.op = "jump_to_judge" /\ 1 <= last.arg
            /\ last.arg <= total_judges)
           => Key = <<last.key[1], last.arg - 1>>

\* jump_to_insight to the last insight has just been accepted from a unit
\* with a judge index other than 0.
C13_Witness ==
    /\ last.op = "jump_to_insight"
    /\ last.arg = total_insights
    /\ total_insights > 1
    /\ last.key[2] > 0
    /\ last.key[1] # total_insights - 1
    /\ Key = <<total_insights - 1, 0>>

\* C14: at most one autosave timer is pending: the slot _autosave_job is
\* non-empty exactly when a scheduled safe_auto_save callback is outstanding,
\* that callback is the one in the slot, an edit leaves exactly one pending,
\* and the slot is empty after the timer has fired.
C14_OneAutosavePending ==
    /\ Cardinality(DOMAIN after_autosave) <= 1
    /\ autosave_job # 0 <=> after_autosave # <<>>
    /\ autosave_job # 0 => DOMAIN after_autosave = {autosave_job}
    /\ last.op = "safe_auto_save" => autosave_job = 0
    /\ (last.op \in EditOps /\ window_exists) => autosave_job # 0

\* The second edit has just re-armed the timer the first edit had armed.
C14_Witness ==
    /\ last.op = "on_key_release"
    /\ edits_left = MaxEdits - 2
    /\ issue_level_var # ""
    /\ reviews = EmptyReviews
    /\ autosave_job # 0
    /\ Cardinality(DOMAIN after_autosave) = 1

\* C15: edits made within one debounce window, with only the timer between
\* them, are followed by exactly one run of safe_auto_save, and that run is
\* at least one debounce delay after the last of the edits.
C15_DebounceFromLastEdit ==
    /\ [](Len(last.burst) >= 2 =>
            /\ last.fired <= 1
            /\ last.op = "safe_auto_save" =>
                   now >= last.burst[Len(last.burst)] + AutosaveDelay)
    /\ (Len(last.burst) >= 2 /\ last.fired = 0) ~> (last.fired = 1)

\* Two edits less than one debounce delay apart, at different instants, and
\* safe_auto_save has run once since.
C15_Witness ==
    /\ last.op = "safe_auto_save"
    /\ Len(last.burst) = 2
    /\ last.burst[1] < last.burst[2]
    /\ last.burst[2] < last.burst[1] + AutosaveDelay
    /\ last.fired = 1
    /\ now < last.burst[1] + 2 * AutosaveDelay

\* C16: when the write of the save file fails during a manual save, the
\* failure reaches the user: manual_save does not report success when the
\* save file was not written.
C16_ManualSaveReportsFailure ==
    (last.op = "manual_save" /\ last.failed) =>
        last.shown # "Progress saved successfully!"

\* C17: on_window_close cancels the pending timer, makes one commit attempt
\* of the current unit and destroys the window whether or not that attempt
\* succeeds; once the window is closed no autosave timer is pending and
\* neither the store nor the save file changes any more.
C17_CloseCancelsAndCommitsOnce ==
    /\ [](last.op = "on_window_close" =>
            /\ ~window_exists
            /\ last.attempt
            /\ last.key = Key
            /\ ValidAssessment(last.level, last.expl) =>
                   /\ last.key \in DOMAIN reviews
                   /\ reviews[last.key] = StoredAs(last.level, last.expl)
            /\ ~last.ok => ~last.changed)
    /\ [](~window_exists => (autosave_job = 0 /\ after_autosave = <<>>))
    /\ [][~window_exists =>
             /\ reviews' = reviews
             /\ file_state' = file_state
             /\ file_data' = file_data
             /\ ~window_exists']_vars

\* The window was closed while a timer was pending; the last commit stored
\* a new record and the write of the save file failed.
C17_Witness ==
    /\ last.op = "on_window_close"
    /\ ~window_exists
    /\ last.ok
    /\ last.changed
    /\ last.failed
    /\ file_state # "complete"

\* The save file holds, complete, what the last successful save wrote.
FileIsLastSave ==
    /\ file_state = "complete"
    /\ file_data = SaveData(saved[1].reviews, saved[1].key[1], saved[1].key[2])

\* C19: a save that fails part-way never leaves the save file half-written:
\* once a save has succeeded, the save file holds the complete content of
\* the last successful save, also after a later write error.
C19_FailedSaveKeepsPriorFile ==
    saved # <<>> => FileIsLastSave

LoadOps == {"load_last_review", "load_specific_file", "start_new_review"}

\* The last operation opened a session from the save file.
Loaded == last.op \in LoadOps /\ last.arg = 1

\* C18: loading the save file that the last save wrote, of a non-empty
\* store and a cursor inside the dataset, gives a session with the same
\* keys mapped to the same records and the same cursor.
C18_SaveLoadRoundTrip ==
    (/\ Loaded
     /\ saved # <<>>
     /\ file_data = SaveData(saved[1].reviews, saved[1].key[1],
                             saved[1].key[2])
     /\ saved[1].reviews # EmptyReviews
     /\ saved[1].key[1] < total_insights) =>
        /\ reviews = saved[1].reviews
        /\ Key = saved[1].key

\* A file with two records, one of them with a line break in its
\* explanation, and a cursor other than (0, 0) has just been loaded; the
\* record of (0, 0) is No Issues without explanation.
C18_Witness ==
    /\ Loaded
    /\ saved # <<>>
    /\ file_data = SaveData(saved[1].reviews, saved[1].key[1],
                            saved[1].key[2])
    /\ Cardinality(DOMAIN reviews) = 2
    /\ reviews[<<0, 0>>] = [issue_level |-> "No Issues", explanation |-> <<>>]
    /\ \E k \in DOMAIN reviews : reviews[k].issue_level = "Major Issues"
    /\ Key # <<0, 0>>

\* C20: on every load path (load last review, load a chosen file, continue
\* from start-new-review) a save file lacking one of the keys insights_file,
\* reviews, total_insights, total_judges is rejected: no session is opened
\* from it.
C20_MissingKeyRejected ==
    [][(last'.op \in LoadOps /\ last'.arg = 1) =>
          RequiredKeys \subseteq file_data.keys]_vars

\* The keys of the reviews mapping of a save file that are not in the form
\* "(i, j)" that save writes.
ForeignKeys(fd) ==
    {t \in DOMAIN fd.reviews :
        \A i \in 0..(total_insights + 1), j \in 0..(total_judges + 1) :
            t # KeyStr(<<i, j>>)}

\* C21: loading a save file whose reviews mapping holds a key that is not in
\* the exact form "(i, j)" written by save is a hard error: no session is
\* opened, the store and the cursor are left as they were.
C21_ForeignKeyIsHardError ==
    [][(last'.op \in LoadOps /\ last'.arg \in {1, 3}
           /\ ForeignKeys(file_data) # {}) =>
          (/\ ~window_exists'
           /\ UNCHANGED <<reviews, current_insight_index,
                          current_judge_index>>)]_vars

\* The two ways the code falls short of C21.  A key in another form that
\* eval() accepts is loaded like a key in the form of save.
C21_AcceptedForeignKey ==
    /\ Loaded
    /\ ForeignKeys(file_data) # {}
    /\ window_exists
    /\ DOMAIN reviews = {EvalKey(t) : t \in DOMAIN file_data.reviews}

\* A key eval() raises on leaves a window open over the cursor of the file
\* and a store keyed by the texts of the file.
C21_PartialSession ==
    /\ last.op \in LoadOps /\ last.arg = 3
    /\ window_exists
    /\ Key # <<0, 0>>
    /\ DOMAIN reviews = DOMAIN file_data.reviews
    /\ ForeignKeys(file_data) # {}

\* The save file in use, when there is a file on disk, is that file.
OneSaveFile ==
    (file_state # "absent" /\ current_save_file # <<>>) =>
        file_path = current_save_file

\* C22: for an insights path a and workout paths b # c the save-file names
\* of (a, b) and (a, c) differ: the name a new review is started under is
\* the name of no other pairing of the same insights file.
C22_NamesSeparatePairings ==
    (last.op = "start_new_review" /\ last.arg \in {2, 7}) =>
        \A c \in WorkoutChoices \ {workout_file_var} :
            GenerateSaveFilename(insights_file_var, c) # current_save_file

\* How the code falls short of C22: a review of one pairing is continued
\* from the save file that a session over another pairing wrote.
C22_SharedSaveFile ==
    /\ last.op = "start_new_review" /\ last.arg = 1
    /\ last.key = <<0, 0>>
    /\ prev.op = "init"
    /\ workout_file_var = OtherDirWorkoutCsv
    /\ file_path = GenerateSaveFilename(InsightsCsv, WorkoutCsv)
    /\ reviews # EmptyReviews

\* C23: in a new session the save file does not exist until the first
\* assessment has been accepted into the store: while the store is empty no
\* operation (timer, navigation, manual save, close) has created the file.
C23_NoFileBeforeFirstRecord ==
    reviews = EmptyReviews => file_state = "absent"

\* The last operation discarded the save file and started a fresh session.
StartedFresh == last.op = "start_new_review" /\ last.arg = 7

\* C24: when "Start New Review" finds a save file at the deterministic name
\* and the user chooses to start fresh, the save file is deleted and the
\* session opened has an empty store, the cursor (0, 0) and an empty,
\* pending edit buffer: nothing of the discarded save is shown.
C24_StartFreshDiscardsSave ==
    StartedFresh =>
        /\ file_state = "absent"
        /\ window_exists
        /\ reviews = EmptyReviews
        /\ Key = <<0, 0>>
        /\ issue_level_var = ""
        /\ explanation_text = <<>>
        /\ review_status_var = "PENDING"
        /\ current_save_file =
               GenerateSaveFilename(insights_file_var, workout_file_var)

\* A fresh session was started over a discarded save file, after an earlier
\* session had been opened from that file and closed at another unit.
C24_Witness ==
    /\ StartedFresh
    /\ window_exists
    /\ file_state = "absent"
    /\ last.key # <<0, 0>>

\* C25: within a session the store never shrinks: whatever the operation
\* (commit, rejected commit, timer, navigation, manual save, statistics,
\* export), every key of the store before it is a key of the store after it.
C25_StoreNeverShrinks ==
    [][DOMAIN reviews \subseteq DOMAIN reviews']_vars

\* Statistics of a store of one record were shown and exported, and a
\* second record was committed after that.
C25_Witness ==
    /\ Cardinality(DOMAIN reviews) = 2
    /\ stats_shown # NoStats
    /\ stats_shown.total_completed = 1
    /\ exported.kind = "statistics"
    /\ last.ok /\ last.changed

\* C26: a commit attempted while the issue level is empty and the
\* explanation is empty once trimmed is a no-op: the store is unchanged, no
\* record exists for the current key unless one did before, and the commit
\* does not write the save file (manual_save writes the file itself after
\* the commit has returned).
C26_EmptyCommitIsNoOp ==
    [][(last'.attempt /\ last'.level = "" /\ Trimmed(last'.expl) = <<>>) =>
          /\ ~last'.ok
          /\ reviews' = reviews
          /\ last'.key \in DOMAIN reviews' <=> last'.had
          /\ last'.op # "manual_save" =>
                 (/\ file_state' = file_state
                  /\ file_data' = file_data
                  /\ saved' = saved)]_vars

\* The timer fired over a buffer with no level and a blank as explanation,
\* at a unit without record, before any save file was written.
C26_Witness ==
    /\ last.op = "safe_auto_save"
    /\ last.attempt
    /\ last.level = ""
    /\ last.expl = <<" ">>
    /\ ~last.had
    /\ last.key \notin DOMAIN reviews
    /\ file_state = "absent"

\* The last operation was a load given up at a declined prompt.
Declined == last.op \in LoadOps /\ last.arg \in {4, 5, 6}

\* C27: when a CSV path recorded in the save file is missing and the user
\* declines to locate it (the insights, or the workout history, also after
\* having located the insights), the load is cancelled with nothing
\* applied: the paths of the main window, the current save file and the
\* save file on disk are unchanged and no review session is opened.
C27_DeclinedLoadAppliesNothing ==
    [][Declined' =>
          /\ ~window_exists'
          /\ UNCHANGED <<insights_file_var, workout_file_var,
                         current_save_file, file_state, file_data, file_path,
                         reviews, current_insight_index,
                         current_judge_index>>]_vars

\* The workout history was declined after the insights had been located,
\* with nothing chosen in the main window before.
C27_Witness ==
    /\ last.op \in LoadOps /\ last.arg = 6
    /\ insights_file_var = <<>>
    /\ current_save_file = <<>>
    /\ file_data.insights_file = MovedInsightsCsv
    /\ file_data.workout_file = MovedWorkoutCsv
    /\ ~window_exists

\* C28: while the review window is open the status label of the current
\* unit reads REVIEWED exactly when the store holds the key of the cursor
\* and PENDING exactly when it does not, after navigation, accepted and
\* rejected commits alike.
C28_StatusTracksStore ==
    window_exists =>
        /\ review_status_var = "REVIEWED" <=> Key \in DOMAIN reviews
        /\ review_status_var = "PENDING" <=> Key \notin DOMAIN reviews

\* The timer's commit was rejected at a unit that has a record, in a grid of
\* two units of which the other is pending: the label stays REVIEWED.
C28_Witness ==
    /\ window_exists
    /\ last.attempt /\ ~last.ok /\ last.had
    /\ last.op = "safe_auto_save"
    /\ review_status_var = "REVIEWED"
    /\ Cardinality(DOMAIN reviews) = 1
    /\ total_insights * total_judges = 2

\* The number of records of the store with the issue level lvl.
Records(lvl) == Cardinality({k \in DOMAIN reviews : reviews[k].issue_level = lvl})

\* p, in tenths of a percent, is n / d * 100 to the nearest tenth, and 0
\* when d is 0.
IsPercent(p, n, d) ==
    IF d = 0 THEN p = 0
    ELSE /\ 2 * (p * d - 1000 * n) <= d
         /\ 2 * (1000 * n - p * d) <= d

\* The statistics window has just been filled from the store.
StatsJustShown == last.op = "show_statistics" /\ stats_shown # NoStats

\* C29: the global statistics are a function of the store: total possible
\* is total_insights * total_judges, total completed the number of store
\* entries, the three counts the numbers of records of each issue level,
\* each percentage count / completed * 100, the overall issue rate
\* (minor + major) / completed * 100, and every ratio is 0 when its
\* denominator is 0.
C29_GlobalStatistics ==
    StatsJustShown =>
        LET s == stats_shown
            completed == Cardinality(DOMAIN reviews)
        IN  /\ s.total_possible_reviews = total_insights * total_judges
            /\ s.total_completed = completed
            /\ s.no_issues = Records("No Issues")
            /\ s.minor_issues = Records("Minor Issues")
            /\ s.major_issues = Records("Major Issues")
            /\ IsPercent(s.no_issues_pct, Records("No Issues"), completed)
            /\ IsPercent(s.minor_issues_pct, Records("Minor Issues"), completed)
            /\ IsPercent(s.major_issues_pct, Records("Major Issues"), completed)
            /\ IsPercent(s.issue_rate,
                         Records("Minor Issues") + Records("Major Issues"),
                         completed)
            /\ IsPercent(s.completion_pct, completed,
                         total_insights * total_judges)

\* Statistics of a store of three records, one of each issue level: 33.3 %
\* each and an overall issue rate of 66.7 %.
C29_Witness ==
    /\ StatsJustShown
    /\ stats_shown.total_completed = 3
    /\ stats_shown.no_issues = 1
    /\ stats_shown.no_issues_pct = 333
    /\ stats_shown.issue_rate = 667

\* Statistics of an empty store: every ratio is 0.
C29_EmptyStore ==
    /\ StatsJustShown
    /\ stats_shown.total_completed = 0
    /\ stats_shown.issue_rate = 0
    /\ stats_shown.no_issues_pct = 0

\* The store entries judged in the category of index j.
EntriesOf(j) == {k \in DOMAIN reviews : k[2] = j}

\* The number of entries of category j with the issue level lvl.
RecordsOf(j, lvl) ==
    Cardinality({k \in EntriesOf(j) : reviews[k].issue_level = lvl})

\* rows holds, for every category, exactly one row, computed from the store
\* entries of that category alone.
BreakdownOf(rows) ==
    \A j \in 0..(total_judges - 1) :
       LET N == {n \in DOMAIN rows :
                    rows[n].judge_category = JudgeCategories[j + 1]}
       IN  /\ Cardinality(N) = 1
           /\ \A n \in N :
                 /\ rows[n].total = Cardinality(EntriesOf(j))
                 /\ rows[n].no_issues = RecordsOf(j, "No Issues")
                 /\ rows[n].minor_issues = RecordsOf(j, "Minor Issues")
                 /\ rows[n].major_issues = RecordsOf(j, "Major Issues")
                 /\ IsPercent(rows[n].issue_rate,
                              RecordsOf(j, "Minor Issues")
                                  + RecordsOf(j, "Major Issues"),
                              Cardinality(EntriesOf(j)))
                 /\ IsPercent(rows[n].no_issues_pct,
                              RecordsOf(j, "No Issues"),
                              Cardinality(EntriesOf(j)))

\* The statistics file has just been written from the store.
StatsJustExported == last.op = "export_statistics" /\ last.arg = 1

\* C30: for each judge category the breakdown, in the statistics window and
\* in the exported statistics, counts only the store entries of that
\* category: total is their number, the issue rate is
\* (minor + major) / total * 100 and no_issues_percent is no / total * 100,
\* both 0 when total is 0.
C30_CategoryBreakdown ==
    /\ StatsJustShown => BreakdownOf(stats_shown.judges)
    /\ StatsJustExported => BreakdownOf(exported.rows)

\* The reviews No, No, Minor, Major of one category are exported with an
\* issue rate of 50.0 and a no_issues_percent of 50.0.
C30_Witness ==
    /\ StatsJustExported
    /\ total_judges = 1
    /\ exported.rows[1].total = 4
    /\ exported.rows[1].no_issues = 2
    /\ exported.rows[1].minor_issues = 1
    /\ exported.rows[1].major_issues = 1
    /\ exported.rows[1].issue_rate = 500
    /\ exported.rows[1].no_issues_pct = 500

\* A category without entries beside one with entries: its ratios are 0.
C30_EmptyCategory ==
    /\ StatsJustShown
    /\ total_judges = 2
    /\ EntriesOf(1) = {}
    /\ EntriesOf(0) # {}
    /\ \E n \in 1..2 : /\ stats_shown.judges[n].total = 0
                        /\ stats_shown.judges[n].issue_rate = 0

\* C31: export_statistics writes exactly one record for every category of
\* the category list, the categories without reviews included, and the
\* records are in the order of non-increasing issue rate.
C31_ExportedStatistics ==
    StatsJustExported =>
        /\ Len(exported.rows) = total_judges
        /\ \A j \in 1..total_judges :
              Cardinality({n \in 1..Len(exported.rows) :
                  exported.rows[n].judge_category = JudgeCategories[j]}) = 1
        /\ \A n, k \in 1..Len(exported.rows) :
              n < k => exported.rows[n].issue_rate >= exported.rows[k].issue_rate

\* Statistics exported from a store with reviews of the second category
\* only, some of them with issues: the second category comes first, the
\* first category follows with no reviews.
C31_Witness ==
    /\ StatsJustExported
    /\ total_judges = 2
    /\ exported.rows[1].judge_category = JudgeCategories[2]
    /\ exported.rows[1].issue_rate > 0
    /\ exported.rows[2].judge_category = JudgeCategories[1]
    /\ exported.rows[2].total = 0

\* The results file has just been written from the store.
ResultsJustExported == last.op = "export_results" /\ last.arg = 1

\* Row a of the results precedes row b in the order of the pair
\* (insight_index, judge_category), the category names compared as text.
InsightFirst(a, b) ==
    \/ a.insight_index < b.insight_index
    \/ /\ a.insight_index = b.insight_index
       /\ AlphaRank(a.judge_category) < AlphaRank(b.judge_category)

\* Row a precedes row b in the order of (judge_category, insight_index).
JudgeFirst(a, b) ==
    \/ AlphaRank(a.judge_category) < AlphaRank(b.judge_category)
    \/ /\ a.judge_category = b.judge_category
       /\ a.insight_index < b.insight_index

\* C32: the exported reviews are in ascending order of
\* (insight_index, judge_category) when sort_by is insight and of
\* (judge_category, insight_index) when sort_by is judge, whatever the store
\* holds.
C32_ExportedReviewsOrder ==
    ResultsJustExported =>
        \A n, k \in 1..Len(exported.rows) :
           n < k => IF exported.kind = "judge"
                    THEN JudgeFirst(exported.rows[n], exported.rows[k])
                    ELSE InsightFirst(exported.rows[n], exported.rows[k])

\* Reviews of the first and the third insight only, exported with sort_by
\* insight: the record of the first insight comes first.
C32_Witness ==
    /\ ResultsJustExported
    /\ exported.kind = "insight"
    /\ DOMAIN reviews = {<<2, 0>>, <<0, 0>>}
    /\ Len(exported.rows) = 2
    /\ exported.rows[1].insight_index = 1
    /\ exported.rows[2].insight_index = 3

\* Reviews exported with sort_by judge: the record of a later insight in an
\* alphabetically earlier category precedes the record of the first insight.
C32_JudgeOrder ==
    /\ ResultsJustExported
    /\ exported.kind = "judge"
    /\ DOMAIN reviews = {<<0, 1>>, <<1, 0>>}
    /\ exported.rows[1].insight_index = 2

\* The rows of the results that carry the entry at key k of the store.
RowsOf(k) ==
    {n \in 1..Len(exported.rows) :
        /\ exported.rows[n].insight_index = k[1] + 1
        /\ exported.rows[n].judge_category = JudgeCategories[k[2] + 1]
        /\ exported.rows[n].metajudge_assessment = reviews[k].issue_level
        /\ exported.rows[n].metajudge_explanation = reviews[k].explanation}

\* C33: the exported reviews hold exactly one record per store entry: as
\* many records as store keys, and for the key (i, j) a record with the
\* 1-based insight_index i + 1, the category name at position j of the
\* category list and the stored issue level and explanation.
C33_OneRecordPerEntry ==
    ResultsJustExported =>
        /\ Len(exported.rows) = Cardinality(DOMAIN reviews)
        /\ \A k \in DOMAIN reviews : Cardinality(RowsOf(k)) = 1

\* A store of three entries exported, among them a major issue of the second
\* insight in the second category with its explanation.
C33_Witness ==
    /\ ResultsJustExported
    /\ Cardinality(DOMAIN reviews) = 3
    /\ <<1, 1>> \in DOMAIN reviews
    /\ \E n \in 1..Len(exported.rows) :
          exported.rows[n] = [insight_index |-> 2,
                              judge_category |-> "insightfulness",
                              metajudge_assessment |-> "Major Issues",
                              metajudge_explanation |-> <<"a">>]

\* A session has just been opened from the save file.
JustLoaded ==
    /\ last.op \in {"load_last_review", "load_specific_file"}
    /\ last.arg = 1

C35_StoreKeysInGrid == window_exists => DOMAIN reviews \subseteq Units

\* How the code falls short of C35: the store of a loaded session holds an
\* entry beyond the rows of the dataset, and the export of the results has
\* stopped with an exception at the lookup of its row.
C35_ExportRaised ==
    /\ window_exists
    /\ last.op = "export_results" /\ last.arg = 2
    /\ \E k \in DOMAIN reviews : k[1] >= total_insights

\* A navigation transition or an accepted jump has just moved the cursor of
\* the open window.
JustNavigated == window_exists /\ last.op \in NavOps /\ last.attempt

\* C36: immediately after a navigation transition or an accepted jump the
\* edit buffer (issue level, explanation) is the stored record of the new
\* current unit if there is one and is empty otherwise: nothing typed at the
\* unit left is carried over.
C36_BufferFollowsCursor ==
    JustNavigated =>
        IF Key \in DOMAIN reviews
        THEN /\ issue_level_var = reviews[Key].issue_level
             /\ explanation_text = reviews[Key].explanation
        ELSE /\ issue_level_var = ""
             /\ explanation_text = <<>>

\* The reviewer typed an explanation, selected a level and moved on to a
\* unit without a record: the buffer there is empty.
C36_Witness ==
    /\ JustNavigated
    /\ last.key # Key
    /\ last.level # ""
    /\ last.expl # <<>>
    /\ Key \notin DOMAIN reviews
    /\ issue_level_var = ""
    /\ explanation_text = <<>>

\* The reviewer moved back to a unit with a record from a unit where
\* something else was typed: the buffer shows the record.
C36_BackToRecord ==
    /\ JustNavigated
    /\ last.key # Key
    /\ last.expl # <<>>
    /\ Key \in DOMAIN reviews
    /\ reviews[Key].explanation # Trimmed(last.expl)
    /\ explanation_text = reviews[Key].explanation

\* C37: whenever an autosave timer fires, the cursor is at the unit at which
\* that timer was armed: a timer armed by an edit at one unit never commits
\* under the key of another, because every navigation transition in between
\* cancels or replaces it.
C37_TimerFiresWhereArmed ==
    [][last'.op = "safe_auto_save" =>
          \A id \in (DOMAIN after_autosave) \ (DOMAIN after_autosave') :
             /\ after_autosave[id].at = Key
             /\ last'.key = Key]_vars

\* The one edit of the session was made at unit (0, 0), a navigation
\* transition stored it and moved on, and the timer has then fired at the
\* new unit, where there is nothing to commit.
C37_Witness ==
    /\ last.op = "safe_auto_save"
    /\ edits_left = MaxEdits - 1
    /\ <<0, 0>> \in DOMAIN reviews
    /\ Key # <<0, 0>>
    /\ Key \notin DOMAIN reviews
    /\ ~last.ok

\* The cursor recorded in the save file.
FileCursor == <<file_data.current_insight_index, file_data.current_judge_index>>

\* The session has just been closed, no write has failed, and a review has
\* been saved.
JustClosed ==
    /\ last.op = "on_window_close"
    /\ ~last.failed
    /\ file_state = "complete"
    /\ reviews # EmptyReviews

\* C38: after a session is closed without a write failure, the cursor in
\* the save file is the cursor of the session at the moment of the close,
\* whatever navigation and edits came before, provided a review was saved.
C38_FileCursorIsCloseCursor == JustClosed => FileCursor = Key

\* How the code falls short of C38: the reviewer assessed unit (0, 0), moved
\* on to a unit without a record and closed the window there; the save file
\* still names unit (0, 0).
C38_ResumesBehind ==
    /\ JustClosed
    /\ ~last.ok
    /\ Key # <<0, 0>>
    /\ DOMAIN reviews = {<<0, 0>>}
    /\ FileCursor = <<0, 0>>

\* C39: for any sequence of "No Issues" hotkey presses and their deferred
\* advances, every unit the cursor leaves through a deferred advance has a
\* record in the store.
C39_DeferredAdvanceLeavesRecord ==
    (last.op = "deferred_next_review" /\ window_exists) =>
        last.key \in DOMAIN reviews

\* How the code falls short of C39: the hotkey was pressed twice at unit
\* (0, 0) before the first deferred advance ran; the second advance has left
\* the next unit, which has no record.
C39_SkippedUnit ==
    /\ last.op = "deferred_next_review"
    /\ window_exists
    /\ edits_left = MaxPresses - 2
    /\ after_next = 0
    /\ DOMAIN reviews = {<<0, 0>>}
    /\ last.key = NextReviewPos(0, 0)
    /\ last.key # <<0, 0>>
    /\ Key = NextReviewPos(last.key[1], last.key[2])

\* The sum of the total_reviews of the rows.
RECURSIVE SumOfTotals(_)
SumOfTotals(rows) ==
    IF rows = <<>> THEN 0 ELSE Head(rows).total + SumOfTotals(Tail(rows))

\* In every row the three level counts add up to the total of the row, and
\* the totals of the rows add up to the number of store entries.
Conserves(rows) ==
    /\ \A n \in 1..Len(rows) :
          rows[n].no_issues + rows[n].minor_issues + rows[n].major_issues
              = rows[n].total
    /\ SumOfTotals(rows) = Cardinality(DOMAIN reviews)

\* C40: the statistics conserve the store: the no_issues, minor_issues and
\* major_issues counts of each category sum to the total_reviews of the
\* category, and the total_reviews of all categories sum to the number of
\* store entries.
C40_StatisticsConserveStore ==
    /\ StatsJustShown => Conserves(stats_shown.judges)
    /\ StatsJustExported => Conserves(exported.rows)

\* How the code falls short of C40: an explanation was typed and committed
\* with no issue level selected; the category has one review and none of
\* the three counts includes it.
C40_UncountedRecord ==
    /\ StatsJustExported
    /\ \E k \in DOMAIN reviews : reviews[k].issue_level = ""
    /\ \E n \in 1..Len(exported.rows) :
          /\ exported.rows[n].total = 1
          /\ exported.rows[n].no_issues = 0
          /\ exported.rows[n].minor_issues = 0
          /\ exported.rows[n].major_issues = 0

\* The totals of the categories do add up to the number of store entries.
C40_TotalsConserved ==
    /\ StatsJustShown => SumOfTotals(stats_shown.judges) = Cardinality(DOMAIN reviews)
    /\ StatsJustExported => SumOfTotals(exported.rows) = Cardinality(DOMAIN reviews)
====
